---- MODULE Spec2Model ----
(***************************************************************************)
(* Inline suppression-directive engine and report aggregation of           *)
(* scopelint (src/check/inline_config.rs, src/check/report.rs).            *)
(*                                                                         *)
(* A source text is a sequence of one-character cells.  Offsets are the    *)
(* 0-based byte offsets of the Rust code: the character at offset i is     *)
(* src[i + 1].  A comment is one cell: "#", or "%" for a comment that      *)
(* holds the character '}'.  A directive token is the location of a "#"    *)
(* cell together with its parsed InlineConfigItem.                         *)
(***************************************************************************)
EXTENDS Integers, Sequences, FiniteSets, TLC

(***************************************************************************)
(* Bounds of the explored inputs.                                          *)
(***************************************************************************)
MaxLineLen == 4
MaxLineDirs == 2
MaxRegionLen == 4
MaxItemLen == 6
MaxSkipLen == 3
MaxItems == 3
MaxSuffixWords == 2
MaxMixedLen == 3
MaxDeclLen == 5
MaxPieces == 3

(***************************************************************************)
(* Characters, rule identifiers, directive items.                          *)
(***************************************************************************)
NL == "\n"
SP == " "
OB == "{"
CB == "}"
CODE == "x"
\* The terminator of a declaration without a body.
SEMI == ";"
COMMENT == "#"
\* A closing brace written inside a comment: the character '}', in comment state.
CCB == "%"

Rules == {"variable", "error"}

GenericTags == {"DisableNextItem", "DisableLine", "DisableNextLine", "DisableStart",
                "DisableEnd", "IgnoreNextItem", "IgnoreLine", "IgnoreNextLine",
                "IgnoreStart", "IgnoreEnd"}

RuleIgnoreScope == {"NextItem", "Line", "NextLine", "Start", "End", "File"}

Generic(tag) == [tag |-> tag, kind |-> "-", scope |-> "-"]

IgnoreRule(kind, scope) == [tag |-> "IgnoreRule", kind |-> kind, scope |-> scope]

NoItem == [tag |-> "None", kind |-> "-", scope |-> "-"]

InlineConfigItem ==
    {Generic(t) : t \in GenericTags} \cup
    {IgnoreRule(k, s) : k \in Rules, s \in RuleIgnoreScope}

Loc(start, end) == [start |-> start, end |-> end]

(***************************************************************************)
(* Option values: None is the empty set, Some(x) the singleton.            *)
(***************************************************************************)
None == {}

Some(x) == {x}

Unwrap(o) == CHOOSE x \in o : TRUE

Min(S) == CHOOSE x \in S : \A y \in S : x <= y

Max(S) == CHOOSE x \in S : \A y \in S : y <= x

(***************************************************************************)
(* Character scans.                                                        *)
(***************************************************************************)
CharAt(s, off) == s[off + 1]

is_whitespace(ch) == ch \in {NL, SP}

\* The comment-state primitive: the state the scanner reports for the
\* character at offset off ("None" for code, "Comment" inside a comment).
CommentStateAt(s, off) == IF CharAt(s, off) \in {COMMENT, CCB} THEN "Comment" ELSE "None"

\* ch == '}' on the raw character, whatever its comment state.
IsCloseBrace(ch) == ch \in {CB, CCB}

\* src[..loc.start()].char_indices().rev().skip_while(ch != '\n').next()
\*     .map(|(idx, _)| idx).unwrap_or_default()
PrevNewline(s, locStart) ==
    LET nls == {i \in 0..(locStart - 1) : CharAt(s, i) = NL}
    IN  IF nls = {} THEN 0 ELSE Max(nls)

\* end_offset + src[end_offset..].char_indices().skip_while(ch != '\n').next()
\*     .map(|(idx, _)| idx).unwrap_or_default()
NextNewline(s, endOffset) ==
    LET nls == {i \in endOffset..(Len(s) - 1) : CharAt(s, i) = NL}
    IN  IF nls = {} THEN endOffset + 0 ELSE endOffset + (Min(nls) - endOffset)

\* The Strict range of a Line directive.
LineRange(s, loc) ==
    [start |-> PrevNewline(s, loc.start), end |-> NextNewline(s, loc.end), loose |-> FALSE]

\* src[offset..].char_indices().skip_while(ch != '\n').skip(1), then next():
\* the offset of the character that follows the first newline, if any.
NextLineStart(s, offset) ==
    LET nls == {i \in offset..(Len(s) - 1) : CharAt(s, i) = NL}
    IN  IF nls = {} \/ Min(nls) + 1 > Len(s) - 1 THEN None ELSE Some(Min(nls) + 1)

\* char_indices.find(ch == '\n') on the iterator that has already yielded the
\* start character: the first newline strictly after start.
NextLineEnd(s, start) ==
    LET nls == {i \in (start + 1)..(Len(s) - 1) : CharAt(s, i) = NL}
    IN  IF nls = {} THEN Len(s) ELSE Min(nls) + 1

\* The range of a NextLine directive (None when no character follows the
\* next newline).
NextLineRange(s, loc, loose) ==
    LET st == NextLineStart(s, loc.end)
    IN  IF st = None THEN None
        ELSE Some([start |-> Unwrap(st), end |-> NextLineEnd(s, Unwrap(st)), loose |-> loose])

\* Mutant of CodeOffsets: the characters of comments count as code.
CodeOffsetsRaw(s, offset) ==
    {i \in offset..(Len(s) - 1) : ~is_whitespace(CharAt(s, i))}

\* The offsets of src[offset..] that are code (comment state None) and not
\* whitespace.
CodeOffsets(s, offset) ==
    {i \in offset..(Len(s) - 1) :
        CommentStateAt(s, i) = "None" /\ ~is_whitespace(CharAt(s, i))}

\* First code character after the directive.
NextItemStart(s, offset) ==
    IF CodeOffsets(s, offset) = {} THEN None ELSE Some(Min(CodeOffsets(s, offset)))

\* DisableNextItem: the range ends at the next code character after start.
DisableNextItemRange(s, loc) ==
    LET st == NextItemStart(s, loc.end)
    IN  IF st = None THEN None
        ELSE LET rest == CodeOffsets(s, Unwrap(st) + 1)
             IN  Some([start |-> Unwrap(st),
                       end   |-> IF rest = {} THEN Len(s) ELSE Min(rest),
                       loose |-> TRUE])

\* Mutant of BraceScan: the scan stops at the first closing brace that
\* follows an opening brace, whatever the count.
RECURSIVE BraceScanFirstClose(_, _, _, _)
BraceScanFirstClose(s, idx, brace_count, found_function_start) ==
    IF idx >= Len(s) THEN Len(s)
    ELSE IF CharAt(s, idx) = OB
         THEN BraceScanFirstClose(s, idx + 1, brace_count + 1, TRUE)
    ELSE IF IsCloseBrace(CharAt(s, idx))
         THEN IF found_function_start
              THEN idx + 1
              ELSE BraceScanFirstClose(s, idx + 1, brace_count - 1, found_function_start)
    ELSE BraceScanFirstClose(s, idx + 1, brace_count, found_function_start)

\* The brace scan of IgnoreNextItem over the raw characters of src[start..]:
\* idx is the absolute offset, the result is the range end.
RECURSIVE BraceScan(_, _, _, _)
BraceScan(s, idx, brace_count, found_function_start) ==
    IF idx >= Len(s) THEN Len(s)
    ELSE IF CharAt(s, idx) = OB
         THEN BraceScan(s, idx + 1, brace_count + 1, TRUE)
    ELSE IF IsCloseBrace(CharAt(s, idx))
         THEN IF found_function_start /\ brace_count - 1 = 0
              THEN idx + 1
              ELSE BraceScan(s, idx + 1, brace_count - 1, found_function_start)
    ELSE BraceScan(s, idx + 1, brace_count, found_function_start)

IgnoreNextItemRange(s, loc) ==
    LET st == NextItemStart(s, loc.end)
    IN  IF st = None THEN None
        ELSE Some([start |-> Unwrap(st),
                   end   |-> BraceScan(s, Unwrap(st), 0, FALSE),
                   loose |-> TRUE])

(***************************************************************************)
(* DisabledRange::includes / IgnoredRange::includes.                       *)
(***************************************************************************)
\* Mutant of includes: every range is tested as a Loose range.
includes_loose(range, loc) == loc.start >= range.start /\ loc.start < range.end

includes(range, loc) ==
    IF range.loose
    THEN loc.start >= range.start /\ loc.start < range.end
    ELSE loc.start >= range.start /\ loc.end <= range.end

AnyIncludes(ranges, loc) == \E i \in 1..Len(ranges) : includes(ranges[i], loc)

(***************************************************************************)
(* The locals of InlineConfig::new as one record.  The three HashMaps are  *)
(* functions whose domain is the set of keys entered so far.               *)
(***************************************************************************)
EmptyMap == [k \in {} |-> 0]

NewLocals ==
    [disabled_ranges      |-> <<>>,
     disabled_range_start |-> None,
     disabled_depth       |-> 0,
     ignored_ranges       |-> <<>>,
     ignored_range_start  |-> None,
     ignored_depth        |-> 0,
     rule_ignored_ranges  |-> EmptyMap,
     rule_ignored_starts  |-> EmptyMap,
     rule_ignored_depths  |-> EmptyMap]

\* map.entry(k).or_insert_with(|| v)
Entry(m, k, v) == [x \in DOMAIN m \cup {k} |-> IF x \in DOMAIN m THEN m[x] ELSE v]

\* ranges.push(r) for an optional range
PushOpt(ranges, optRange) ==
    IF optRange = None THEN ranges ELSE Append(ranges, Unwrap(optRange))

\* Mutant of saturating_sub: plain subtraction, with no floor at 0.
unchecked_sub(n, k) == n - k

saturating_sub(n, k) == IF n >= k THEN n - k ELSE 0

(***************************************************************************)
(* The arms of the match in InlineConfig::new, generic directives.         *)
(***************************************************************************)
DisableNextItem(st, loc, s) ==
    [st EXCEPT !.disabled_ranges = PushOpt(@, DisableNextItemRange(s, loc))]

DisableLine(st, loc, s) ==
    [st EXCEPT !.disabled_ranges = Append(@, LineRange(s, loc))]

DisableNextLine(st, loc, s) ==
    [st EXCEPT !.disabled_ranges = PushOpt(@, NextLineRange(s, loc, FALSE))]

\* Mutant of DisableStart: the region starts at the start offset of the
\* directive.
DisableStartAtStart(st, loc, s) ==
    [st EXCEPT !.disabled_range_start = IF st.disabled_depth = 0 THEN Some(loc.start) ELSE @,
               !.disabled_depth = @ + 1]

DisableStart(st, loc, s) ==
    [st EXCEPT !.disabled_range_start = IF st.disabled_depth = 0 THEN Some(loc.end) ELSE @,
               !.disabled_depth = @ + 1]

\* Mutant of DisableEnd: the pending start is read but not taken.
DisableEndNoTake(st, loc, s) ==
    LET depth == saturating_sub(st.disabled_depth, 1)
    IN  IF depth = 0 /\ st.disabled_range_start # None
        THEN [st EXCEPT !.disabled_depth = depth,
                        !.disabled_ranges =
                            Append(@, [start |-> Unwrap(st.disabled_range_start),
                                       end   |-> loc.start,
                                       loose |-> FALSE])]
        ELSE [st EXCEPT !.disabled_depth = depth]

DisableEnd(st, loc, s) ==
    LET depth == saturating_sub(st.disabled_depth, 1)
    IN  IF depth = 0 /\ st.disabled_range_start # None
        THEN [st EXCEPT !.disabled_depth = depth,
                        !.disabled_range_start = None,
                        !.disabled_ranges =
                            Append(@, [start |-> Unwrap(st.disabled_range_start),
                                       end   |-> loc.start,
                                       loose |-> FALSE])]
        ELSE [st EXCEPT !.disabled_depth = depth]

IgnoreNextItem(st, loc, s) ==
    [st EXCEPT !.ignored_ranges = PushOpt(@, IgnoreNextItemRange(s, loc))]

IgnoreLine(st, loc, s) ==
    [st EXCEPT !.ignored_ranges = Append(@, LineRange(s, loc))]

IgnoreNextLine(st, loc, s) ==
    [st EXCEPT !.ignored_ranges = PushOpt(@, NextLineRange(s, loc, FALSE))]

\* Mutant of IgnoreStart: the depth is set to 1, nested starts are not
\* counted.
IgnoreStartFlat(st, loc, s) ==
    [st EXCEPT !.ignored_range_start = IF st.ignored_depth = 0 THEN Some(loc.end) ELSE @,
               !.ignored_depth = 1]

IgnoreStart(st, loc, s) ==
    [st EXCEPT !.ignored_range_start = IF st.ignored_depth = 0 THEN Some(loc.end) ELSE @,
               !.ignored_depth = @ + 1]

\* Mutant of IgnoreEnd: the two offsets of the emitted range are exchanged.
IgnoreEndSwapped(st, loc, s) ==
    LET depth == saturating_sub(st.ignored_depth, 1)
    IN  IF depth = 0 /\ st.ignored_range_start # None
        THEN [st EXCEPT !.ignored_depth = depth,
                        !.ignored_range_start = None,
                        !.ignored_ranges =
                            Append(@, [start |-> loc.start,
                                       end   |-> Unwrap(st.ignored_range_start),
                                       loose |-> FALSE])]
        ELSE [st EXCEPT !.ignored_depth = depth]

IgnoreEnd(st, loc, s) ==
    LET depth == saturating_sub(st.ignored_depth, 1)
    IN  IF depth = 0 /\ st.ignored_range_start # None
        THEN [st EXCEPT !.ignored_depth = depth,
                        !.ignored_range_start = None,
                        !.ignored_ranges =
                            Append(@, [start |-> Unwrap(st.ignored_range_start),
                                       end   |-> loc.start,
                                       loose |-> FALSE])]
        ELSE [st EXCEPT !.ignored_depth = depth]

(***************************************************************************)
(* The IgnoreRule arm: the three entries of the rule are created first,    *)
(* then the scope decides.                                                 *)
(***************************************************************************)
RuleEntries(st, kind) ==
    [st EXCEPT !.rule_ignored_ranges = Entry(@, kind, <<>>),
               !.rule_ignored_starts = Entry(@, kind, None),
               !.rule_ignored_depths = Entry(@, kind, 0)]

RuleNextItem(st, kind, loc, s) ==
    [st EXCEPT !.rule_ignored_ranges[kind] = PushOpt(@, IgnoreNextItemRange(s, loc))]

RuleLine(st, kind, loc, s) ==
    [st EXCEPT !.rule_ignored_ranges[kind] = Append(@, LineRange(s, loc))]

RuleNextLine(st, kind, loc, s) ==
    [st EXCEPT !.rule_ignored_ranges[kind] = PushOpt(@, NextLineRange(s, loc, TRUE))]

\* Mutant of RuleStart: every RegionStart records the pending start.
RuleStartAlways(st, kind, loc, s) ==
    [st EXCEPT !.rule_ignored_starts[kind] = Some(loc.end),
               !.rule_ignored_depths[kind] = @ + 1]

RuleStart(st, kind, loc, s) ==
    [st EXCEPT !.rule_ignored_starts[kind] =
                   IF st.rule_ignored_depths[kind] = 0 THEN Some(loc.end) ELSE @,
               !.rule_ignored_depths[kind] = @ + 1]

\* Mutant of RuleEnd: the range ends at the start offset of the directive.
RuleEndAtStart(st, kind, loc, s) ==
    LET depth == saturating_sub(st.rule_ignored_depths[kind], 1)
    IN  IF depth = 0 /\ st.rule_ignored_starts[kind] # None
        THEN [st EXCEPT !.rule_ignored_depths[kind] = depth,
                        !.rule_ignored_starts[kind] = None,
                        !.rule_ignored_ranges[kind] =
                            Append(@, [start |-> Unwrap(st.rule_ignored_starts[kind]),
                                       end   |-> loc.start,
                                       loose |-> FALSE])]
        ELSE [st EXCEPT !.rule_ignored_depths[kind] = depth]

RuleEnd(st, kind, loc, s) ==
    LET depth == saturating_sub(st.rule_ignored_depths[kind], 1)
    IN  IF depth = 0 /\ st.rule_ignored_starts[kind] # None
        THEN [st EXCEPT !.rule_ignored_depths[kind] = depth,
                        !.rule_ignored_starts[kind] = None,
                        !.rule_ignored_ranges[kind] =
                            Append(@, [start |-> Unwrap(st.rule_ignored_starts[kind]),
                                       end   |-> loc.end,
                                       loose |-> FALSE])]
        ELSE [st EXCEPT !.rule_ignored_depths[kind] = depth]

\* Mutant of RuleFile: the range ends at the source length.
RuleFileToLen(st, kind, loc, s) ==
    [st EXCEPT !.rule_ignored_ranges[kind] =
                   Append(@, [start |-> 0, end |-> Len(s), loose |-> TRUE])]

RuleFile(st, kind, loc, s) ==
    [st EXCEPT !.rule_ignored_ranges[kind] =
                   Append(@, [start |-> 0, end |-> Len(s) + 1, loose |-> TRUE])]

\* Mutant of IgnoreRuleArm: every rule uses the entries of rule "error".
IgnoreRuleArmShared(st, kind, scope, loc, s) ==
    LET e == RuleEntries(st, "error")
    IN  CASE scope = "NextItem" -> RuleNextItem(e, "error", loc, s)
          [] scope = "Line"     -> RuleLine(e, "error", loc, s)
          [] scope = "NextLine" -> RuleNextLine(e, "error", loc, s)
          [] scope = "Start"    -> RuleStart(e, "error", loc, s)
          [] scope = "End"      -> RuleEnd(e, "error", loc, s)
          [] scope = "File"     -> RuleFile(e, "error", loc, s)

IgnoreRuleArm(st, kind, scope, loc, s) ==
    LET e == RuleEntries(st, kind)
    IN  CASE scope = "NextItem" -> RuleNextItem(e, kind, loc, s)
          [] scope = "Line"     -> RuleLine(e, kind, loc, s)
          [] scope = "NextLine" -> RuleNextLine(e, kind, loc, s)
          [] scope = "Start"    -> RuleStart(e, kind, loc, s)
          [] scope = "End"      -> RuleEnd(e, kind, loc, s)
          [] scope = "File"     -> RuleFile(e, kind, loc, s)

\* One iteration of the for loop: the match on the item.
ProcessItem(st, tok, s) ==
    LET loc == tok.loc
        item == tok.item
    IN  CASE item.tag = "DisableNextItem" -> DisableNextItem(st, loc, s)
          [] item.tag = "DisableLine"     -> DisableLine(st, loc, s)
          [] item.tag = "DisableNextLine" -> DisableNextLine(st, loc, s)
          [] item.tag = "DisableStart"    -> DisableStart(st, loc, s)
          [] item.tag = "DisableEnd"      -> DisableEnd(st, loc, s)
          [] item.tag = "IgnoreNextItem"  -> IgnoreNextItem(st, loc, s)
          [] item.tag = "IgnoreLine"      -> IgnoreLine(st, loc, s)
          [] item.tag = "IgnoreNextLine"  -> IgnoreNextLine(st, loc, s)
          [] item.tag = "IgnoreStart"     -> IgnoreStart(st, loc, s)
          [] item.tag = "IgnoreEnd"       -> IgnoreEnd(st, loc, s)
          [] item.tag = "IgnoreRule"      -> IgnoreRuleArm(st, item.kind, item.scope, loc, s)

(***************************************************************************)
(* After the loop: the unclosed regions.                                   *)
(***************************************************************************)
UnclosedRange(start, s) == [start |-> start, end |-> Len(s), loose |-> FALSE]

\* Mutant of CloseUnclosed: the rule-scoped regions are not closed.
CloseUnclosedGeneric(st, s) ==
    [st EXCEPT
        !.disabled_ranges =
            IF st.disabled_range_start # None
            THEN Append(@, UnclosedRange(Unwrap(st.disabled_range_start), s)) ELSE @,
        !.disabled_range_start = None,
        !.ignored_ranges =
            IF st.ignored_range_start # None
            THEN Append(@, UnclosedRange(Unwrap(st.ignored_range_start), s)) ELSE @,
        !.ignored_range_start = None]

CloseUnclosed(st, s) ==
    [st EXCEPT
        !.disabled_ranges =
            IF st.disabled_range_start # None
            THEN Append(@, UnclosedRange(Unwrap(st.disabled_range_start), s)) ELSE @,
        !.disabled_range_start = None,
        !.ignored_ranges =
            IF st.ignored_range_start # None
            THEN Append(@, UnclosedRange(Unwrap(st.ignored_range_start), s)) ELSE @,
        !.ignored_range_start = None,
        !.rule_ignored_ranges =
            [k \in DOMAIN st.rule_ignored_ranges |->
                IF st.rule_ignored_starts[k] # None
                THEN Append(st.rule_ignored_ranges[k],
                            UnclosedRange(Unwrap(st.rule_ignored_starts[k]), s))
                ELSE st.rule_ignored_ranges[k]]]

\* Self { disabled_ranges, ignored_ranges, rule_ignored_ranges }
InlineConfigOf(st) ==
    [disabled_ranges     |-> st.disabled_ranges,
     ignored_ranges      |-> st.ignored_ranges,
     rule_ignored_ranges |-> st.rule_ignored_ranges]

\* items.into_iter().sorted_by_key(|(loc, _)| loc.start()): a stable sort.
RECURSIVE InsertByKey(_, _)
InsertByKey(sorted, tok) ==
    IF sorted = <<>> THEN <<tok>>
    ELSE IF Head(sorted).loc.start <= tok.loc.start
         THEN <<Head(sorted)>> \o InsertByKey(Tail(sorted), tok)
         ELSE <<tok>> \o sorted

\* Mutant of sorted_by_key: the tokens are processed in the order handed in.
sorted_by_key_none(its) == its

RECURSIVE sorted_by_key(_)
sorted_by_key(its) ==
    IF its = <<>> THEN <<>>
    ELSE InsertByKey(sorted_by_key(SubSeq(its, 1, Len(its) - 1)), its[Len(its)])

RECURSIVE Fold(_, _, _)
Fold(st, tks, s) ==
    IF tks = <<>> THEN st ELSE Fold(ProcessItem(st, Head(tks), s), Tail(tks), s)

\* InlineConfig::new as a function of its arguments.
InlineConfigNew(its, s) ==
    InlineConfigOf(CloseUnclosed(Fold(NewLocals, sorted_by_key(its), s), s))

(***************************************************************************)
(* The queries.                                                            *)
(***************************************************************************)
is_disabled(cfg, loc) == AnyIncludes(cfg.disabled_ranges, loc)

is_ignored(cfg, loc) == AnyIncludes(cfg.ignored_ranges, loc)

is_rule_ignored(cfg, loc, kind) ==
    IF kind \in DOMAIN cfg.rule_ignored_ranges
    THEN AnyIncludes(cfg.rule_ignored_ranges[kind], loc)
    ELSE FALSE

(***************************************************************************)
(* The program state.                                                      *)
(*   src, items     the arguments of InlineConfig::new                     *)
(*   toks, pos      the sorted iterator of the for loop and its position   *)
(*   locals         the local variables of InlineConfig::new               *)
(*   pc             "sort", "loop", "done" (builder); "report" (Report)    *)
(*   parsed         the Parsed files of a run, by file path                *)
(*   invalid_items  Report::invalid_items                                  *)
(*   findings       history: the arguments each InvalidItem was built from *)
(*   comments       the directive comments of a file, as (loc, text)       *)
(*   invalid_inline_config_items  the comments from_str rejected           *)
(*   sanitized      the text parse_solidity hands to its second attempt    *)
(*   toml           the parsed foundry.toml                                *)
(*   check_paths    the CheckPaths that CheckPaths::load returns           *)
(***************************************************************************)
VARIABLES src, items, toks, pos, locals, pc, parsed, invalid_items, findings,
          comments, invalid_inline_config_items, sanitized, toml, check_paths

vars == <<src, items, toks, pos, locals, pc, parsed, invalid_items, findings, comments,
          invalid_inline_config_items, sanitized, toml, check_paths>>

(***************************************************************************)
(* Input files.  A cell is a character together with the directive the     *)
(* comment scanner parsed from it (NoItem for code and plain comments).    *)
(***************************************************************************)
CodeCell(c) == [ch |-> c, item |-> NoItem]

DirCell(item) == [ch |-> COMMENT, item |-> item]

DirCount(cells) == Cardinality({i \in DOMAIN cells : cells[i].item # NoItem})

SourceOf(cells) == [i \in 1..Len(cells) |-> cells[i].ch]

TokensOf(cells) ==
    LET idx == SelectSeq([i \in 1..Len(cells) |-> i], LAMBDA i : cells[i].item # NoItem)
    IN  [j \in 1..Len(idx) |-> [loc |-> Loc(idx[j] - 1, idx[j]), item |-> cells[idx[j]].item]]

Reverse(seq) == [i \in 1..Len(seq) |-> seq[Len(seq) + 1 - i]]

Universes == {"format", "lint"} \cup Rules

\* The directive of scope sc in universe u.
Directive(u, sc) ==
    CASE u = "format" -> Generic("Disable" \o sc)
      [] u = "lint"   -> Generic("Ignore" \o sc)
      [] OTHER        -> IgnoreRule(u, sc)

\* Files of lines: code, newlines, Line / NextLine / WholeFile directives.
LineSymbols ==
    {CodeCell(NL), CodeCell(CODE)} \cup
    {DirCell(Directive(u, sc)) : u \in Universes, sc \in {"Line", "NextLine"}} \cup
    {DirCell(IgnoreRule(k, "File")) : k \in Rules}

LineInputs ==
    UNION {{c \in [1..n -> LineSymbols] : DirCount(c) <= MaxLineDirs} : n \in 0..MaxLineLen}

\* Files of regions: code and RegionStart / RegionEnd directives.
RegionSymbols ==
    {CodeCell(CODE)} \cup
    {DirCell(Directive(u, sc)) : u \in Universes, sc \in {"Start", "End"}}

RegionInputs == UNION {[1..n -> RegionSymbols] : n \in 1..MaxRegionLen}

\* Files of one NextItem directive followed by a declaration.
ItemDirectives == {DirCell(Directive(u, "NextItem")) : u \in {"format", "lint", "error"}}

ItemInputs ==
    UNION {{<<d>> \o b : d \in ItemDirectives,
                         b \in [1..n -> {CodeCell(OB), CodeCell(CB), CodeCell(CODE)}]} :
           n \in 0..MaxItemLen}

\* Files of one NextItem directive followed by whitespace, comments and code.
SkipInputs ==
    UNION {{<<d>> \o b : d \in ItemDirectives,
                         b \in [1..n -> {CodeCell(SP), CodeCell(NL), CodeCell(COMMENT),
                                         CodeCell(CCB), CodeCell(CODE), CodeCell(OB),
                                         CodeCell(CB)}]} :
           n \in 0..MaxSkipLen}

\* Files of one NextItem directive followed by declarations with or without
\* a body.
DeclInputs ==
    UNION {{<<d>> \o b : d \in ItemDirectives,
                         b \in [1..n -> {CodeCell(CODE), CodeCell(SEMI), CodeCell(OB),
                                         CodeCell(CB)}]} :
           n \in 0..MaxDeclLen}

Inputs == LineInputs \cup RegionInputs \cup ItemInputs \cup SkipInputs \cup DeclInputs

Init ==
    /\ \E cells \in Inputs, rev \in BOOLEAN :
          /\ src = SourceOf(cells)
          /\ items = IF rev THEN Reverse(TokensOf(cells)) ELSE TokensOf(cells)
    /\ toks = <<>>
    /\ pos = 1
    /\ locals = NewLocals
    /\ pc = "sort"
    /\ parsed = <<>>
    /\ invalid_items = <<>>
    /\ findings = <<>>
    /\ comments = <<>>
    /\ invalid_inline_config_items = <<>>
    /\ sanitized = <<>>
    /\ toml = <<>>
    /\ check_paths = <<>>

(***************************************************************************)
(* InlineConfig::new, step by step.                                        *)
(***************************************************************************)
SortItems ==
    /\ pc = "sort"
    /\ toks' = sorted_by_key(items)
    /\ items' = <<>>
    /\ pc' = "loop"
    /\ UNCHANGED <<sanitized, toml, check_paths, src, pos, locals, parsed, invalid_items, findings, comments,
                 invalid_inline_config_items>>

\* Mutant of slice_index_ok: the index must be that of a character.
slice_index_strict(s, off) == off < Len(s)

\* src[off..] and src[..off] are defined up to the length of the source; an
\* index past it panics.
slice_index_ok(s, off) == off <= Len(s)

\* The offsets at which the arm of an item slices the source.
SliceOffsets(item, loc) ==
    LET scope == IF item.tag = "IgnoreRule" THEN item.scope
                 ELSE IF item.tag \in {"DisableNextItem", "IgnoreNextItem"} THEN "NextItem"
                 ELSE IF item.tag \in {"DisableLine", "IgnoreLine"} THEN "Line"
                 ELSE IF item.tag \in {"DisableNextLine", "IgnoreNextLine"} THEN "NextLine"
                 ELSE "-"
    IN  CASE scope \in {"NextItem", "NextLine"} -> {loc.end}
          [] scope = "Line"                     -> {loc.start, loc.end}
          [] OTHER                              -> {}

\* The arm of the current item runs only if none of its slices panics.
AtItem(tag) ==
    /\ pc = "loop"
    /\ pos <= Len(toks)
    /\ toks[pos].item.tag = tag
    /\ \A off \in SliceOffsets(toks[pos].item, toks[pos].loc) : slice_index_ok(src, off)

AtRule(scope) == AtItem("IgnoreRule") /\ toks[pos].item.scope = scope

Advance(newLocals) ==
    /\ locals' = newLocals
    /\ pos' = pos + 1
    /\ UNCHANGED <<sanitized, toml, check_paths, src, items, toks, pc, parsed, invalid_items, findings, comments,
                 invalid_inline_config_items>>

StepDisableNextItem ==
    AtItem("DisableNextItem") /\ Advance(DisableNextItem(locals, toks[pos].loc, src))

StepDisableLine ==
    AtItem("DisableLine") /\ Advance(DisableLine(locals, toks[pos].loc, src))

StepDisableNextLine ==
    AtItem("DisableNextLine") /\ Advance(DisableNextLine(locals, toks[pos].loc, src))

StepDisableStart ==
    AtItem("DisableStart") /\ Advance(DisableStart(locals, toks[pos].loc, src))

StepDisableEnd ==
    AtItem("DisableEnd") /\ Advance(DisableEnd(locals, toks[pos].loc, src))

StepIgnoreNextItem ==
    AtItem("IgnoreNextItem") /\ Advance(IgnoreNextItem(locals, toks[pos].loc, src))

StepIgnoreLine ==
    AtItem("IgnoreLine") /\ Advance(IgnoreLine(locals, toks[pos].loc, src))

StepIgnoreNextLine ==
    AtItem("IgnoreNextLine") /\ Advance(IgnoreNextLine(locals, toks[pos].loc, src))

StepIgnoreStart ==
    AtItem("IgnoreStart") /\ Advance(IgnoreStart(locals, toks[pos].loc, src))

StepIgnoreEnd ==
    AtItem("IgnoreEnd") /\ Advance(IgnoreEnd(locals, toks[pos].loc, src))

StepRule(scope) ==
    /\ AtRule(scope)
    /\ Advance(IgnoreRuleArm(locals, toks[pos].item.kind, scope, toks[pos].loc, src))

StepRuleNextItem == StepRule("NextItem")

StepRuleLine == StepRule("Line")

StepRuleNextLine == StepRule("NextLine")

StepRuleStart == StepRule("Start")

StepRuleEnd == StepRule("End")

StepRuleFile == StepRule("File")

Finish ==
    /\ pc = "loop"
    /\ pos > Len(toks)
    /\ locals' = CloseUnclosed(locals, src)
    /\ pc' = "done"
    /\ UNCHANGED <<sanitized, toml, check_paths, src, items, toks, pos, parsed, invalid_items, findings, comments,
                 invalid_inline_config_items>>

Next ==
    \/ SortItems
    \/ StepDisableNextItem
    \/ StepDisableLine
    \/ StepDisableNextLine
    \/ StepDisableStart
    \/ StepDisableEnd
    \/ StepIgnoreNextItem
    \/ StepIgnoreLine
    \/ StepIgnoreNextLine
    \/ StepIgnoreStart
    \/ StepIgnoreEnd
    \/ StepRuleNextItem
    \/ StepRuleLine
    \/ StepRuleNextLine
    \/ StepRuleStart
    \/ StepRuleEnd
    \/ StepRuleFile
    \/ Finish

Spec == Init /\ [][Next]_vars

\* The builder is a sequential loop: a step that can be taken is taken.
SpecFair == Spec /\ WF_vars(Next)

\* The finished InlineConfig (meaningful when pc = "done").
config == InlineConfigOf(locals)

(***************************************************************************)
(* InvalidItem and Report (src/check/report.rs).  Strings are sequences of *)
(* bytes, ordered as Rust orders String: bytewise, a proper prefix first.  *)
(***************************************************************************)
StrLess(a, b) ==
    \/ \E i \in 1..Len(a) :
          /\ i <= Len(b)
          /\ \A j \in 1..(i - 1) : a[j] = b[j]
          /\ a[i] < b[i]
    \/ /\ Len(a) < Len(b)
       /\ \A j \in 1..Len(a) : a[j] = b[j]

\* The file paths "a" and "b", the messages "B" and "a".
FileA == <<97>>

FileB == <<98>>

Files == {FileA, FileB}

Texts == {<<66>>, <<97>>}

\* The order of the ValidatorKind variants: Directive findings are rendered
\* before Variable findings, and these before Error findings.
ValidatorKindOrder == <<"directive", "variable", "error">>

KindRank(kind) == CHOOSE i \in 1..Len(ValidatorKindOrder) : ValidatorKindOrder[i] = kind

\* offset_to_line: lines are numbered from 1.
offset_to_line(s, off) == 1 + Cardinality({i \in 0..(off - 1) : CharAt(s, i) = NL})

\* InvalidItem::new(kind, parsed, loc, text)
InvalidItemNew(kind, p, loc, text) ==
    [kind        |-> kind,
     file        |-> p.file,
     text        |-> text,
     line        |-> offset_to_line(p.src, loc.start),
     is_disabled |-> is_disabled(p.inline_config, loc),
     is_ignored  |-> \/ is_ignored(p.inline_config, loc)
                     \/ is_rule_ignored(p.inline_config, loc, kind)]

\* InvalidItem::description: the rendered line, as the fields it prints.
description(item) ==
    [kind |-> item.kind, file |-> item.file, line |-> item.line, text |-> item.text]

\* Mutant of the derived Ord: file, then line, then kind, then text.
InvalidItemLessByPosition(a, b) ==
    \/ StrLess(a.file, b.file)
    \/ /\ a.file = b.file
       /\ \/ a.line < b.line
          \/ /\ a.line = b.line
             /\ \/ KindRank(a.kind) < KindRank(b.kind)
                \/ /\ a.kind = b.kind
                   /\ StrLess(a.text, b.text)

\* The derived Ord of InvalidItem: kind, then file, then text, then line.
InvalidItemLess(a, b) ==
    \/ KindRank(a.kind) < KindRank(b.kind)
    \/ /\ a.kind = b.kind
       /\ \/ StrLess(a.file, b.file)
          \/ /\ a.file = b.file
             /\ \/ StrLess(a.text, b.text)
                \/ /\ a.text = b.text
                   /\ a.line < b.line

RECURSIVE InsertSorted(_, _)
InsertSorted(sorted, item) ==
    IF sorted = <<>> THEN <<item>>
    ELSE IF InvalidItemLess(item, Head(sorted))
         THEN <<item>> \o sorted
         ELSE <<Head(sorted)>> \o InsertSorted(Tail(sorted), item)

\* Itertools::sorted_unstable
RECURSIVE sorted_unstable(_)
sorted_unstable(its) ==
    IF its = <<>> THEN <<>>
    ELSE InsertSorted(sorted_unstable(Tail(its)), Head(its))

\* The filter of Display and is_valid.
Reported(item) == ~item.is_disabled /\ ~item.is_ignored

\* Mutant of Display: the lines are written in insertion order.
DisplayUnsorted(its) ==
    LET kept == SelectSeq(its, Reported)
    IN  [i \in 1..Len(kept) |-> description(kept[i])]

\* impl fmt::Display for Report: the lines written, in order.
Display(its) ==
    LET kept == sorted_unstable(SelectSeq(its, Reported))
    IN  [i \in 1..Len(kept) |-> description(kept[i])]

\* Report::is_valid
is_valid(its) == ~\E i \in 1..Len(its) : Reported(its[i])

(***************************************************************************)
(* A run of the checks over parsed files: every validator hands the        *)
(* InvalidItems of one file to the Report.                                 *)
(***************************************************************************)
SourceRegion ==
    <<DirCell(IgnoreRule("error", "Start")), CodeCell(CODE),
      DirCell(IgnoreRule("error", "End")), CodeCell(CODE)>>

SourceDisabled ==
    <<DirCell(Generic("DisableStart")), CodeCell(CODE), CodeCell(NL),
      CodeCell(CODE), DirCell(Generic("IgnoreLine"))>>

SourcePlain == <<CodeCell(CODE), CodeCell(NL), CodeCell(CODE)>>

\* The runs: two files with different sources.
ReportRuns ==
    { (FileA :> SourceRegion) @@ (FileB :> SourceDisabled),
      (FileA :> SourceDisabled) @@ (FileB :> SourcePlain),
      (FileA :> SourcePlain) @@ (FileB :> SourceRegion) }

ParsedOf(file, cells) ==
    [file          |-> file,
     src           |-> SourceOf(cells),
     inline_config |-> InlineConfigNew(TokensOf(cells), SourceOf(cells))]

\* The locations a validator reports: the code tokens of the file.
FindingLocs(p) == {Loc(i - 1, i) : i \in {j \in 1..Len(p.src) : p.src[j] = CODE}}

ItemOf(f) == InvalidItemNew(f.kind, parsed[f.file], f.loc, f.text)

\* The findings of one validator over one file.
Validated(kind, file, n) ==
    [1..n -> [kind : {kind}, file : {file},
              loc : FindingLocs(parsed[file]), text : Texts]]

InitReport ==
    /\ src = <<>>
    /\ items = <<>>
    /\ toks = <<>>
    /\ pos = 1
    /\ locals = NewLocals
    /\ pc = "report"
    /\ \E cells \in ReportRuns :
          parsed = [f \in Files |-> ParsedOf(f, cells[f])]
    /\ invalid_items = <<>>
    /\ findings = <<>>
    /\ comments = <<>>
    /\ invalid_inline_config_items = <<>>
    /\ sanitized = <<>>
    /\ toml = <<>>
    /\ check_paths = <<>>

\* Report::add_item
add_item ==
    /\ pc = "report"
    /\ Len(invalid_items) < MaxItems
    /\ \E kind \in Rules, file \in Files :
          \E fs \in Validated(kind, file, 1) :
             /\ invalid_items' = Append(invalid_items, ItemOf(fs[1]))
             /\ findings' = Append(findings, fs[1])
    /\ UNCHANGED <<sanitized, toml, check_paths, src, items, toks, pos, locals, pc, parsed, comments,
                 invalid_inline_config_items>>

\* Report::add_items
add_items ==
    /\ pc = "report"
    /\ \E n \in 2..(MaxItems - Len(invalid_items)) :
          \E kind \in Rules, file \in Files :
             \E fs \in Validated(kind, file, n) :
                /\ invalid_items' = invalid_items \o [i \in 1..n |-> ItemOf(fs[i])]
                /\ findings' = findings \o fs
    /\ UNCHANGED <<sanitized, toml, check_paths, src, items, toks, pos, locals, pc, parsed, comments,
                 invalid_inline_config_items>>

NextReport == add_item \/ add_items

SpecReport == InitReport /\ [][NextReport]_vars

(***************************************************************************)
(* Directive texts (impl FromStr for InlineConfigItem).  A text is a       *)
(* sequence of symbols: the dash and whole words.                          *)
(***************************************************************************)
DASH == "-"

RuleNames == {"error", "import", "variable", "constant", "test", "script", "src", "eip712"}

\* The text of words joined by dashes; the empty word has no symbol.
Word(w) == IF w = "" THEN <<>> ELSE <<w>>

RECURSIVE Join(_)
Join(words) ==
    IF words = <<>> THEN <<>>
    ELSE IF Len(words) = 1 THEN Word(words[1])
    ELSE Word(Head(words)) \o <<DASH>> \o Join(Tail(words))

starts_with(s, pre) == Len(pre) <= Len(s) /\ SubSeq(s, 1, Len(pre)) = pre

ends_with(s, suf) == Len(suf) <= Len(s) /\ SubSeq(s, Len(s) - Len(suf) + 1, Len(s)) = suf

strip_prefix(s, pre) ==
    IF starts_with(s, pre) THEN Some(SubSeq(s, Len(pre) + 1, Len(s))) ELSE None

strip_suffix(s, suf) ==
    IF ends_with(s, suf) THEN Some(SubSeq(s, 1, Len(s) - Len(suf))) ELSE None

\* str::split_once('-'): the text before and after the first dash.
split_once(s) ==
    LET dashes == {i \in 1..Len(s) : s[i] = DASH}
    IN  IF dashes = {} THEN None
        ELSE Some(<<SubSeq(s, 1, Min(dashes) - 1), SubSeq(s, Min(dashes) + 1, Len(s))>>)

\* Mutant of parse_rule_name: one rule of the vocabulary is not recognised.
parse_rule_name_short(rule) ==
    IF Len(rule) = 1 /\ rule[1] \in RuleNames \ {"eip712"} THEN Some(rule[1]) ELSE None

parse_rule_name(rule) ==
    IF Len(rule) = 1 /\ rule[1] \in RuleNames THEN Some(rule[1]) ELSE None

Ok(item) == [ok |-> TRUE, item |-> item, err |-> <<>>]

Err(s) == [ok |-> FALSE, item |-> NoItem, err |-> s]

\* Mutant of RuleScopeOf: "next-line" is taken for the scope Line.
RuleScopeOfLine(scope_str) ==
    CASE scope_str = Join(<<"next", "item">>) -> Some("NextItem")
      [] scope_str = Join(<<"line">>)         -> Some("Line")
      [] scope_str = Join(<<"next", "line">>) -> Some("Line")
      [] scope_str = Join(<<"start">>)        -> Some("Start")
      [] scope_str = Join(<<"end">>)          -> Some("End")
      [] OTHER                                -> None

\* match scope_str { ... }
RuleScopeOf(scope_str) ==
    CASE scope_str = Join(<<"next", "item">>) -> Some("NextItem")
      [] scope_str = Join(<<"line">>)         -> Some("Line")
      [] scope_str = Join(<<"next", "line">>) -> Some("NextLine")
      [] scope_str = Join(<<"start">>)        -> Some("Start")
      [] scope_str = Join(<<"end">>)          -> Some("End")
      [] OTHER                                -> None

\* Generic directives: match s { ... }
from_str_generic(s) ==
    CASE s = Join(<<"disable", "next", "item">>) -> Ok(Generic("DisableNextItem"))
      [] s = Join(<<"disable", "line">>)         -> Ok(Generic("DisableLine"))
      [] s = Join(<<"disable", "next", "line">>) -> Ok(Generic("DisableNextLine"))
      [] s = Join(<<"disable", "start">>)        -> Ok(Generic("DisableStart"))
      [] s = Join(<<"disable", "end">>)          -> Ok(Generic("DisableEnd"))
      [] s = Join(<<"ignore", "next", "item">>)  -> Ok(Generic("IgnoreNextItem"))
      [] s = Join(<<"ignore", "line">>)          -> Ok(Generic("IgnoreLine"))
      [] s = Join(<<"ignore", "next", "line">>)  -> Ok(Generic("IgnoreNextLine"))
      [] s = Join(<<"ignore", "start">>)         -> Ok(Generic("IgnoreStart"))
      [] s = Join(<<"ignore", "end">>)           -> Ok(Generic("IgnoreEnd"))
      [] OTHER                                   -> Err(s)

\* InlineConfigItem::from_str
from_str(s) ==
    LET rest == strip_prefix(s, <<"ignore", DASH>>)
    IN  IF rest = None THEN from_str_generic(s)
        ELSE
          LET r        == Unwrap(rest)
              fileKind == IF ends_with(r, <<DASH, "file">>)
                          THEN parse_rule_name(Unwrap(strip_suffix(r, <<DASH, "file">>)))
                          ELSE None
              split    == split_once(r)
              kind     == IF split = None THEN None ELSE parse_rule_name(Unwrap(split)[1])
              bare     == parse_rule_name(r)
          IN  IF fileKind # None THEN Ok(IgnoreRule(Unwrap(fileKind), "File"))
              ELSE IF kind # None
              THEN LET scope == RuleScopeOf(Unwrap(split)[2])
                   IN  IF scope = None THEN Err(s)
                       ELSE Ok(IgnoreRule(Unwrap(kind), Unwrap(scope)))
              ELSE IF bare # None THEN Ok(IgnoreRule(Unwrap(bare), "NextItem"))
              ELSE from_str_generic(s)

(***************************************************************************)
(* The parse pass over one file: the directive comments are parsed, the    *)
(* results partitioned, the InlineConfig built from the well-formed ones   *)
(* and the rejected ones reported.                                         *)
(***************************************************************************)
TextCell(text) == [ch |-> COMMENT, text |-> text]

PlainCell(c) == [ch |-> c, text |-> <<>>]

IsText(cell) == cell.text # <<>>

\* Comments::parse_inline_config_items, before from_str: (loc, text).
CommentsOf(cells) ==
    LET idx == SelectSeq([i \in 1..Len(cells) |-> i], LAMBDA i : IsText(cells[i]))
    IN  [j \in 1..Len(idx) |-> [loc |-> Loc(idx[j] - 1, idx[j]), text |-> cells[idx[j]].text]]

\* Texts of one directive: a first word, possibly a rule word, suffix words.
FirstWords == {"ignore", "disable", "bogus"}

RuleWords == RuleNames \cup {"bogus"}

SuffixWords == {"next", "item", "line", "start", "end", "file", "bogus", ""}

DirectiveTexts ==
    UNION {{Join(<<f>> \o suf) : f \in FirstWords, suf \in [1..n -> SuffixWords]} \cup
           {Join(<<f, r>> \o suf) : f \in FirstWords, r \in RuleWords,
                                    suf \in [1..n -> SuffixWords]} :
           n \in 0..MaxSuffixWords}

\* Files with one directive of any text.
TextInputs == {<<TextCell(txt), PlainCell(CODE)>> : txt \in DirectiveTexts \ {<<>>}}

\* Files with several directives, well-formed and malformed.
MixedSymbols ==
    {PlainCell(CODE), PlainCell(NL)} \cup
    {TextCell(Join(w)) : w \in {<<"ignore", "start">>, <<"ignore", "end">>,
                                <<"disable", "line">>, <<"ignore", "error", "start">>,
                                <<"ignore", "bogus", "start">>, <<"disable", "bogus">>}}

MixedInputs == UNION {[1..n -> MixedSymbols] : n \in 1..MaxMixedLen}

ParseInputs == TextInputs \cup MixedInputs

InitParse ==
    /\ \E cells \in ParseInputs :
          /\ src = [i \in 1..Len(cells) |-> cells[i].ch]
          /\ comments = CommentsOf(cells)
    /\ items = <<>>
    /\ toks = <<>>
    /\ pos = 1
    /\ locals = NewLocals
    /\ pc = "comments"
    /\ parsed = <<>>
    /\ invalid_items = <<>>
    /\ findings = <<>>
    /\ invalid_inline_config_items = <<>>
    /\ sanitized = <<>>
    /\ toml = <<>>
    /\ check_paths = <<>>

\* Mutant of partition_result: the first rejected comment ends the pass.
partition_abort(part, c) ==
    LET r == from_str(c.text)
    IN  IF part.invalid # <<>> THEN part
        ELSE IF r.ok
        THEN [part EXCEPT !.items = Append(@, [loc |-> c.loc, item |-> r.item])]
        ELSE [part EXCEPT !.invalid = Append(@, [loc |-> c.loc, err |-> r.err])]

\* partition_result over one more parsed comment.
partition_result(part, c) ==
    LET r == from_str(c.text)
    IN  IF r.ok
        THEN [part EXCEPT !.items = Append(@, [loc |-> c.loc, item |-> r.item])]
        ELSE [part EXCEPT !.invalid = Append(@, [loc |-> c.loc, err |-> r.err])]

\* comments.parse_inline_config_items().partition_result(), one comment.
ParseComment ==
    /\ pc = "comments"
    /\ pos <= Len(comments)
    /\ LET part == partition_result([items |-> items,
                                     invalid |-> invalid_inline_config_items],
                                    comments[pos])
       IN  /\ items' = part.items
           /\ invalid_inline_config_items' = part.invalid
    /\ pos' = pos + 1
    /\ UNCHANGED <<sanitized, toml, check_paths, src, toks, locals, pc, parsed, invalid_items, findings, comments>>

\* InlineConfig::new(inline_config_items, content) and the Parsed record.
BuildParsed ==
    /\ pc = "comments"
    /\ pos > Len(comments)
    /\ parsed' = (FileA :> [file          |-> FileA,
                            src           |-> src,
                            inline_config |-> InlineConfigNew(items, src)])
    /\ pc' = "parsed"
    /\ UNCHANGED <<sanitized, toml, check_paths, src, items, toks, pos, locals, invalid_items, findings, comments,
                   invalid_inline_config_items>>

\* The rejected comments become Directive findings of the report.
DirectiveItem(inv) == InvalidItemNew("directive", parsed[FileA], inv.loc, inv.err)

ReportInvalidDirectives ==
    /\ pc = "parsed"
    /\ invalid_items' =
          invalid_items \o [i \in 1..Len(invalid_inline_config_items) |->
                               DirectiveItem(invalid_inline_config_items[i])]
    /\ pc' = "checked"
    /\ UNCHANGED <<sanitized, toml, check_paths, src, items, toks, pos, locals, parsed, findings, comments,
                   invalid_inline_config_items>>

NextParse == ParseComment \/ BuildParsed \/ ReportInvalidDirectives

SpecParse == InitParse /\ [][NextParse]_vars

(***************************************************************************)
(* parse_solidity (src/parser.rs): the parser is tried on the source and,  *)
(* if it fails, on the sanitized source.  A text is a sequence of          *)
(* characters; a comment starts at a "#" and runs to the end of its line.  *)
(***************************************************************************)
\* The literal of the regex \btransient\b.
TRANSIENT_KEYWORD == <<"t", "r", "a", "n", "s", "i", "e", "n", "t">>

TRANSIENT_REPLACEMENT == <<" ", " ", " ", " ", " ", " ", " ", " ", " ">>

\* The class \w over the characters of the texts.
is_word_char(ch) == ch \in {"t", "r", "a", "n", "s", "i", "e", "_"}

\* Mutant of word_boundary: the regex without its \b assertions.
word_boundary_any(s, off) == TRUE

\* \b at offset off: exactly one of the characters before and after the
\* offset is a word character.
word_boundary(s, off) ==
    LET before == off > 0 /\ is_word_char(CharAt(s, off - 1))
        after  == off < Len(s) /\ is_word_char(CharAt(s, off))
    IN  before # after

\* The literal occurs at offset off.
literal_at(s, off, lit) ==
    off + Len(lit) <= Len(s) /\ SubSeq(s, off + 1, off + Len(lit)) = lit

\* str::contains
contains(s, lit) == \E off \in 0..Len(s) : literal_at(s, off, lit)

\* The regex matches at offset off.
is_match_at(s, off) ==
    /\ word_boundary(s, off)
    /\ literal_at(s, off, TRANSIENT_KEYWORD)
    /\ word_boundary(s, off + Len(TRANSIENT_KEYWORD))

\* Regex::replace_all from offset off on: the leftmost matches, one after
\* the other, are replaced; the text between them is copied.
RECURSIVE replace_all(_, _)
replace_all(s, off) ==
    IF off >= Len(s) THEN <<>>
    ELSE IF is_match_at(s, off)
         THEN TRANSIENT_REPLACEMENT \o replace_all(s, off + Len(TRANSIENT_KEYWORD))
         ELSE <<CharAt(s, off)>> \o replace_all(s, off + 1)

strip_transient(s) ==
    IF ~contains(s, TRANSIENT_KEYWORD) THEN s ELSE replace_all(s, 0)

sanitize(s) == strip_transient(s)

\* The comments the parser returns for a text it accepts: location and text.
CommentStartsIn(text) ==
    {off \in 0..(Len(text) - 1) :
        /\ CharAt(text, off) = COMMENT
        /\ \A j \in 0..(off - 1) :
              CharAt(text, j) = COMMENT => \E k \in j..off : CharAt(text, k) = NL}

CommentEndIn(text, off) ==
    LET nls == {i \in off..(Len(text) - 1) : CharAt(text, i) = NL}
    IN  IF nls = {} THEN Len(text) ELSE Min(nls)

SortedOffsets(S) ==
    LET RECURSIVE Sorted(_)
        Sorted(R) == IF R = {} THEN <<>> ELSE <<Min(R)>> \o Sorted(R \ {Min(R)})
    IN  Sorted(S)

CommentsIn(text) ==
    LET starts == SortedOffsets(CommentStartsIn(text))
    IN  [i \in 1..Len(starts) |->
            [loc  |-> Loc(starts[i], CommentEndIn(text, starts[i])),
             text |-> SubSeq(text, starts[i] + 1, CommentEndIn(text, starts[i]))]]

\* Source texts: up to MaxPieces pieces, each the keyword or one character.
Pieces == {TRANSIENT_KEYWORD, <<"s">>, <<SP>>, <<COMMENT>>, <<NL>>}

RECURSIVE Concat(_)
Concat(ps) == IF ps = <<>> THEN <<>> ELSE Head(ps) \o Concat(Tail(ps))

SanitizeInputs == UNION {{Concat(ps) : ps \in [1..n -> Pieces]} : n \in 0..MaxPieces}

InitSanitize ==
    /\ src \in SanitizeInputs
    /\ items = <<>>
    /\ toks = <<>>
    /\ pos = 1
    /\ locals = NewLocals
    /\ pc = "parse"
    /\ parsed = <<>>
    /\ invalid_items = <<>>
    /\ findings = <<>>
    /\ comments = <<>>
    /\ invalid_inline_config_items = <<>>
    /\ sanitized = <<>>
    /\ toml = <<>>
    /\ check_paths = <<>>

\* solang_parser::parse(src, file_no) accepts the source.
ParseOk ==
    /\ pc = "parse"
    /\ comments' = CommentsIn(src)
    /\ pc' = "ok"
    /\ UNCHANGED <<sanitized, toml, check_paths, src, items, toks, pos, locals, parsed,
                   invalid_items, findings, invalid_inline_config_items>>

\* The parser rejects the source: the source is sanitized; if nothing
\* changed the diagnostics are returned.
ParseErr ==
    /\ pc = "parse"
    /\ sanitized' = sanitize(src)
    /\ pc' = IF sanitize(src) = src THEN "err" ELSE "reparse"
    /\ UNCHANGED <<toml, check_paths, src, items, toks, pos, locals, parsed,
                   invalid_items, findings, comments, invalid_inline_config_items>>

\* solang_parser::parse(&sanitized, file_no) accepts the sanitized text.
ReparseOk ==
    /\ pc = "reparse"
    /\ comments' = CommentsIn(sanitized)
    /\ pc' = "ok"
    /\ UNCHANGED <<sanitized, toml, check_paths, src, items, toks, pos, locals, parsed,
                   invalid_items, findings, invalid_inline_config_items>>

\* ... or rejects it: the diagnostics of the first attempt are returned.
ReparseErr ==
    /\ pc = "reparse"
    /\ pc' = "err"
    /\ UNCHANGED <<sanitized, toml, check_paths, src, items, toks, pos, locals, parsed,
                   invalid_items, findings, comments, invalid_inline_config_items>>

NextSanitize == ParseOk \/ ParseErr \/ ReparseOk \/ ReparseErr

SpecSanitize == InitSanitize /\ [][NextSanitize]_vars

(***************************************************************************)
(* CheckPaths (src/foundry_config.rs).  A TOML value is absent (None), a   *)
(* string or a value of another type; a table maps its keys to values.  A  *)
(* path is a sequence of characters.                                       *)
(***************************************************************************)
PathNames == {"src", "script", "test"}

Str(s) == Some([type |-> "string", val |-> s])

Integer == Some([type |-> "integer", val |-> <<>>])

\* toml::Value::as_str
as_str(v) == IF v # None /\ Unwrap(v).type = "string" THEN Some(Unwrap(v).val) ELSE None

\* Table::get, Value::get
get(table, key) == IF key \in DOMAIN table THEN table[key] ELSE None

\* Option::map, Option::or, Option::unwrap_or
or(a, b) == IF a # None THEN a ELSE b

unwrap_or(a, d) == IF a # None THEN Unwrap(a) ELSE d

\* str::trim
RECURSIVE trim_start(_)
trim_start(p) == IF p # <<>> /\ is_whitespace(Head(p)) THEN trim_start(Tail(p)) ELSE p

RECURSIVE trim_end(_)
trim_end(p) ==
    IF p # <<>> /\ is_whitespace(p[Len(p)]) THEN trim_end(SubSeq(p, 1, Len(p) - 1)) ELSE p

trim(p) == trim_end(trim_start(p))

normalize_path(p) ==
    LET trimmed == trim(p)
    IN  IF trimmed = <<>> THEN <<".", "/", ".">>
        ELSE IF starts_with(trimmed, <<".", "/">>) \/ starts_with(trimmed, <<"/">>)
             THEN trimmed
             ELSE <<".", "/">> \o trimmed

\* The Foundry default directory of a key.
DefaultName(key) ==
    CASE key = "script" -> <<"s", "c", "r", "i", "p", "t">>
      [] key = "test"   -> <<"t", "e", "s", "t">>
      [] OTHER          -> <<"s", "r", "c">>

\* Mutant of from_foundry_profile: the root-level key is read first.
from_foundry_profile_root_first(doc, key) ==
    LET profile == as_str(get(doc.profile_default, key))
        root    == as_str(get(doc.root, key))
    IN  normalize_path(unwrap_or(or(root, profile), DefaultName(key)))

from_foundry_profile(doc, key) ==
    LET profile == as_str(get(doc.profile_default, key))
        root    == as_str(get(doc.root, key))
    IN  normalize_path(unwrap_or(or(profile, root), DefaultName(key)))

\* toml.get("check").and_then(|v| v.as_table())
check_section(doc) ==
    IF doc.check # None /\ Unwrap(doc.check).type = "table"
    THEN Some(Unwrap(doc.check).val) ELSE None

\* The body of from_toml for a document that parses.
CheckPathsOf(doc) ==
    IF check_section(doc) = None
    THEN [key \in PathNames |-> from_foundry_profile(doc, key)]
    ELSE [key \in PathNames |->
             LET p == as_str(get(Unwrap(check_section(doc)), key \o "_path"))
             IN  IF p # None THEN normalize_path(Unwrap(p))
                 ELSE from_foundry_profile(doc, key)]

\* impl Default for CheckPaths
CheckPathsDefault ==
    [key \in PathNames |-> <<".", "/">> \o DefaultName(key)]

\* The documents: each key of each section is absent, a string or an
\* integer; [check] is absent, a table, or a value that is not a table.  The
\* strings differ by section and by key.
CheckString(key) ==
    CASE key = "src_path"    -> <<".", "/", "C", "1">>
      [] key = "script_path" -> <<".", "/", "C", "2">>
      [] key = "test_path"   -> <<".", "/", "C", "3">>

ProfileString(key) ==
    CASE key = "src"    -> <<"P", "1">>
      [] key = "script" -> <<"P", "2">>
      [] key = "test"   -> <<"P", "3">>

RootString(key) ==
    CASE key = "src"    -> <<SP, "R", SP>>
      [] key = "script" -> <<"/", "R">>
      [] key = "test"   -> <<SP>>

\* The values a key can have, s being its string value.
ValuesOf(s) == {None, Str(s), Integer}

CheckKeys == {key \o "_path" : key \in PathNames}

CheckTables ==
    {tb \in [CheckKeys -> UNION {ValuesOf(CheckString(k)) : k \in CheckKeys}] :
        \A k \in CheckKeys : tb[k] \in ValuesOf(CheckString(k))}

ProfileTables ==
    {tb \in [PathNames -> UNION {ValuesOf(ProfileString(k)) : k \in PathNames}] :
        \A k \in PathNames : tb[k] \in ValuesOf(ProfileString(k))}

RootTables ==
    {tb \in [PathNames -> UNION {ValuesOf(RootString(k)) : k \in PathNames}] :
        \A k \in PathNames : tb[k] \in ValuesOf(RootString(k))}

CheckValues ==
    {None, Integer} \cup {Some([type |-> "table", val |-> tb]) : tb \in CheckTables}

Documents ==
    [check : CheckValues, profile_default : ProfileTables, root : RootTables]

\* toml::from_str(content): Some(document), or None for a content that is
\* not TOML.
ParsedToml == {Some(doc) : doc \in Documents} \cup {None}

InitPaths ==
    /\ toml \in ParsedToml
    /\ check_paths = <<>>
    /\ pc = "load"
    /\ src = <<>>
    /\ items = <<>>
    /\ toks = <<>>
    /\ pos = 1
    /\ locals = NewLocals
    /\ parsed = <<>>
    /\ invalid_items = <<>>
    /\ findings = <<>>
    /\ comments = <<>>
    /\ invalid_inline_config_items = <<>>
    /\ sanitized = <<>>

\* CheckPaths::from_toml(&content): Err for a content that is not TOML.
from_toml ==
    /\ pc = "load"
    /\ IF toml = None
       THEN pc' = "error" /\ UNCHANGED check_paths
       ELSE pc' = "loaded" /\ check_paths' = CheckPathsOf(Unwrap(toml))
    /\ UNCHANGED <<sanitized, toml, src, items, toks, pos, locals, parsed, invalid_items,
                   findings, comments, invalid_inline_config_items>>

\* .unwrap_or_default() of CheckPaths::load
unwrap_or_default ==
    /\ pc = "error"
    /\ check_paths' = CheckPathsDefault
    /\ pc' = "loaded"
    /\ UNCHANGED <<sanitized, toml, src, items, toks, pos, locals, parsed, invalid_items,
                   findings, comments, invalid_inline_config_items>>

NextPaths == from_toml \/ unwrap_or_default

SpecPaths == InitPaths /\ [][NextPaths]_vars

(***************************************************************************)
(* Vocabulary of the properties.                                           *)
(***************************************************************************)
Done == pc = "done"

\* Every location of the file: 0 <= start <= end <= len(source).
Locs == {l \in [start : 0..Len(src), end : 0..Len(src)] : l.start <= l.end}

NonEmpty(loc) == loc.start < loc.end

UniverseOf(item) ==
    IF item.tag = "IgnoreRule" THEN item.kind
    ELSE IF item.tag \in {"DisableNextItem", "DisableLine", "DisableNextLine",
                          "DisableStart", "DisableEnd"}
         THEN "format" ELSE "lint"

ScopeOf(item) ==
    IF item.tag = "IgnoreRule" THEN item.scope
    ELSE CHOOSE sc \in RuleIgnoreScope : item = Directive(UniverseOf(item), sc)

\* The query of universe u.
Query(cfg, u, loc) ==
    CASE u = "format" -> is_disabled(cfg, loc)
      [] u = "lint"   -> is_ignored(cfg, loc)
      [] OTHER        -> is_rule_ignored(cfg, loc, u)

\* The range list of universe u.
Ranges(st, u) ==
    CASE u = "format" -> st.disabled_ranges
      [] u = "lint"   -> st.ignored_ranges
      [] OTHER        -> IF u \in DOMAIN st.rule_ignored_ranges
                         THEN st.rule_ignored_ranges[u] ELSE <<>>

\* The directive tokens of universe u, in source order, and their scopes.
UToks(u) == SelectSeq(toks, LAMBDA t : UniverseOf(t.item) = u)

UScopes(u) == [i \in 1..Len(UToks(u)) |-> ScopeOf(UToks(u)[i].item)]

\* Lines are numbered from 0; a newline belongs to the line it terminates.
LineOf(off) == Cardinality({i \in 0..(off - 1) : CharAt(src, i) = NL})

\* The whole span of loc lies on line k.
OnLine(loc, k) ==
    /\ LineOf(loc.start) = k
    /\ NonEmpty(loc) => LineOf(loc.end - 1) = k

\* ... and does not reach the newline that terminates line k.
WithinLine(loc, k) ==
    /\ OnLine(loc, k)
    /\ NonEmpty(loc) => CharAt(src, loc.end - 1) # NL

\* The file holds exactly one directive token, of scope sc.
OnlyDirective(sc) == Done /\ Len(toks) = 1 /\ ScopeOf(toks[1].item) = sc

(***************************************************************************)
(* C1.  A Line directive on line k suppresses (in its universe) every      *)
(* location whose whole span lies within line k, and no location on line   *)
(* k-1 (its terminating newline included) or on line k+1.  Stated for a    *)
(* file whose only directive is the Line directive, and for non-empty      *)
(* locations.                                                              *)
(***************************************************************************)
C1_LineSuppressesExactlyItsLine ==
    OnlyDirective("Line") =>
        LET u == UniverseOf(toks[1].item)
            k == LineOf(toks[1].loc.start)
        IN  \A loc \in Locs :
                NonEmpty(loc) =>
                    /\ WithinLine(loc, k) => Query(config, u, loc)
                    /\ (OnLine(loc, k - 1) \/ OnLine(loc, k + 1)) => ~Query(config, u, loc)

(***************************************************************************)
(* C2.  A NextLine directive on line k suppresses only locations on line   *)
(* k+1: no location that starts on line k, or on line k+2 or later, is     *)
(* suppressed, whatever line k+1 contains.  Stated for a file whose only   *)
(* directive is the NextLine directive, and for non-empty locations.       *)
(***************************************************************************)
C2_NextLineSuppressesOnlyNextLine ==
    OnlyDirective("NextLine") =>
        LET u == UniverseOf(toks[1].item)
            k == LineOf(toks[1].loc.start)
        IN  \A loc \in Locs :
                (NonEmpty(loc) /\ Query(config, u, loc)) => LineOf(loc.start) = k + 1

(***************************************************************************)
(* C3.  In each universe a RegionStart followed by a RegionEnd suppresses  *)
(* every location between the two directives; Start, Start, End, End       *)
(* yields exactly one range, from the end of the first Start to the last   *)
(* End.                                                                    *)
(***************************************************************************)
RegionPairBetween(u) ==
    UScopes(u) = <<"Start", "End">> =>
        \A loc \in Locs :
            (loc.start >= UToks(u)[1].loc.end /\ loc.end <= UToks(u)[2].loc.start)
                => Query(config, u, loc)

NestedCollapses(u) ==
    UScopes(u) = <<"Start", "Start", "End", "End">> =>
        /\ Len(Ranges(locals, u)) = 1
        /\ Ranges(locals, u)[1].start = UToks(u)[1].loc.end
        /\ Ranges(locals, u)[1].end \in {UToks(u)[4].loc.start, UToks(u)[4].loc.end}

\* C3 as stated: ... and no location after the RegionEnd is suppressed.
C3_RegionOriginal ==
    Done => \A u \in Universes :
        /\ RegionPairBetween(u)
        /\ NestedCollapses(u)
        /\ UScopes(u) = <<"Start", "End">> =>
              \A loc \in Locs :
                  loc.start >= UToks(u)[2].loc.end => ~Query(config, u, loc)

\* C3 as amended: ... and no location that extends past the end of the
\* RegionEnd directive is suppressed (the empty location at the end offset
\* of a rule-scoped RegionEnd is).
C3_RegionPair ==
    Done => \A u \in Universes :
        /\ RegionPairBetween(u)
        /\ NestedCollapses(u)
        /\ UScopes(u) = <<"Start", "End">> =>
              \A loc \in Locs :
                  (loc.start >= UToks(u)[2].loc.end /\ loc.end > UToks(u)[2].loc.end)
                      => ~Query(config, u, loc)

\* Witness: a nested region of rule "error" collapsed to one range, with a
\* suppressed non-empty location inside it.
C3_Witness ==
    /\ Done
    /\ UScopes("error") = <<"Start", "Start", "End", "End">>
    /\ Len(Ranges(locals, "error")) = 1
    /\ \E loc \in Locs :
          /\ NonEmpty(loc)
          /\ loc.start >= UToks("error")[1].loc.end
          /\ loc.end <= UToks("error")[4].loc.start
          /\ Query(config, "error", loc)

(***************************************************************************)
(* C4.  If, after all directive tokens are processed, a universe is left   *)
(* with a pending RegionStart, the builder emits one Strict range from the *)
(* pending start (the end of a RegionStart directive) to the source        *)
(* length: every location that starts at or after it and ends within the   *)
(* file is suppressed.                                                     *)
(***************************************************************************)
PendingStart(st, u) ==
    CASE u = "format" -> st.disabled_range_start
      [] u = "lint"   -> st.ignored_range_start
      [] OTHER        -> IF u \in DOMAIN st.rule_ignored_starts
                         THEN st.rule_ignored_starts[u] ELSE None

C4_UnterminatedRegion ==
    [][(pc = "loop" /\ pc' = "done") =>
        \A u \in Universes :
            PendingStart(locals, u) # None =>
                LET start == Unwrap(PendingStart(locals, u))
                IN  /\ \E i \in 1..Len(UToks(u)) :
                          /\ ScopeOf(UToks(u)[i].item) = "Start"
                          /\ UToks(u)[i].loc.end = start
                    /\ Ranges(locals', u) =
                          Append(Ranges(locals, u),
                                 [start |-> start, end |-> Len(src), loose |-> FALSE])
                    /\ \A loc \in Locs :
                          loc.start >= start => Query(InlineConfigOf(locals'), u, loc)]_vars

\* Witness: a file whose rule "error" region is opened twice, closed once,
\* and a non-empty location after the first RegionStart is suppressed by
\* the range that ends at the source length.
C4_Witness ==
    /\ Done
    /\ UScopes("error") = <<"Start", "Start", "End">>
    /\ Len(Ranges(locals, "error")) = 1
    /\ Ranges(locals, "error")[1].end = Len(src)
    /\ \E loc \in Locs :
          /\ NonEmpty(loc)
          /\ loc.start >= UToks("error")[1].loc.end
          /\ Query(config, "error", loc)

(***************************************************************************)
(* C5.  ignore-<rule>-file for rule R makes is_rule_ignored(loc, R) true   *)
(* for every location of the file, the one at the source length included,  *)
(* and leaves the queries of every other rule, is_ignored and is_disabled  *)
(* as they are without that directive.                                     *)
(***************************************************************************)
\* The tokens without the i-th.
Without(tks, i) == SubSeq(tks, 1, i - 1) \o SubSeq(tks, i + 1, Len(tks))

C5_WholeFile ==
    Done => \A i \in 1..Len(toks) :
        ScopeOf(toks[i].item) = "File" =>
            LET R == toks[i].item.kind
                without == InlineConfigNew(Without(toks, i), src)
            IN  \A loc \in Locs :
                    /\ is_rule_ignored(config, loc, R)
                    /\ is_ignored(config, loc) = is_ignored(without, loc)
                    /\ is_disabled(config, loc) = is_disabled(without, loc)
                    /\ \A R2 \in Rules \ {R} :
                          is_rule_ignored(config, loc, R2) = is_rule_ignored(without, loc, R2)

\* Witness: a file with ignore-error-file and a Line directive of rule
\* "variable"; the location at the source length is ignored for "error"
\* and not for "variable", while some location is ignored for "variable".
C5_Witness ==
    /\ Done
    /\ Len(toks) = 2
    /\ \E i \in 1..2 : toks[i].item = IgnoreRule("error", "File")
    /\ \E i \in 1..2 : toks[i].item = IgnoreRule("variable", "Line")
    /\ is_rule_ignored(config, Loc(Len(src), Len(src)), "error")
    /\ \E loc \in Locs : NonEmpty(loc) /\ ~is_rule_ignored(config, loc, "variable")
    /\ \E loc \in Locs : NonEmpty(loc) /\ is_rule_ignored(config, loc, "variable")

(***************************************************************************)
(* C6.  For a lint NextItem directive immediately preceding a declaration  *)
(* of the shape  function f() { ... { ... } ... }  the emitted Loose range *)
(* starts at the first code character of the declaration and ends right    *)
(* after the closing brace that balances the declaration's first opening   *)
(* brace: every location starting inside the body is suppressed and no     *)
(* location starting after that closing brace is.  Braces balance over the *)
(* raw characters of the source, as the scan counts them.                  *)
(***************************************************************************)
\* Braces are counted over the raw characters, comments included.
Opens(from, to) == Cardinality({i \in from..to : CharAt(src, i) = OB})

Closes(from, to) == Cardinality({i \in from..to : CharAt(src, i) \in {CB, CCB}})

\* First offset at or after off that is neither whitespace nor comment.
FirstCode(off) ==
    Min({i \in off..(Len(src) - 1) : CharAt(src, i) \notin {NL, SP, COMMENT, CCB}})

HasCode(off) == \E i \in off..(Len(src) - 1) : CharAt(src, i) \notin {NL, SP, COMMENT, CCB}

\* The first opening brace at or after s, and the brace that balances it.
FirstOpen(s) == Min({i \in s..(Len(src) - 1) : CharAt(src, i) = OB})

Balanced(o, i) == Opens(o, i) = Closes(o, i)

Closers(o) ==
    {i \in (o + 1)..(Len(src) - 1) : CharAt(src, i) \in {CB, CCB} /\ Balanced(o, i)}

\* The file is one lint NextItem directive followed by a declaration with a
\* brace-balanced body.
IsDeclaration ==
    /\ Done
    /\ Len(toks) = 1
    /\ ScopeOf(toks[1].item) = "NextItem"
    /\ UniverseOf(toks[1].item) # "format"
    /\ HasCode(toks[1].loc.end)
    /\ LET s == FirstCode(toks[1].loc.end)
       IN  /\ CharAt(src, s) = CODE
           /\ \E i \in s..(Len(src) - 1) : CharAt(src, i) = OB
           /\ Closes(s, FirstOpen(s)) = 0
           /\ Closers(FirstOpen(s)) # {}

C6_NextItemCoversBody ==
    IsDeclaration =>
        LET u == UniverseOf(toks[1].item)
            s == FirstCode(toks[1].loc.end)
            o == FirstOpen(s)
            c == Min(Closers(o))
        IN  /\ Ranges(locals, u) = <<[start |-> s, end |-> c + 1, loose |-> TRUE]>>
            /\ \A loc \in Locs :
                  /\ (loc.start > o /\ loc.start < c) => Query(config, u, loc)
                  /\ loc.start >= c + 1 => ~Query(config, u, loc)

\* Witness: the body holds a nested pair of braces, code follows the
\* declaration, a location inside the nested body is suppressed.
C6_Witness ==
    /\ IsDeclaration
    /\ LET u == UniverseOf(toks[1].item)
           s == FirstCode(toks[1].loc.end)
           o == FirstOpen(s)
           c == Min(Closers(o))
       IN  /\ \E i \in (o + 1)..(c - 1), j \in (o + 1)..(c - 1) :
                 /\ i < j
                 /\ CharAt(src, i) = OB
                 /\ CharAt(src, j) = CB
                 /\ Query(config, u, Loc(j, j + 1))
           /\ c + 1 < Len(src)
           /\ ~Query(config, u, Loc(c + 1, c + 2))


(***************************************************************************)
(* The Report.                                                             *)
(***************************************************************************)
Reporting == pc = "report"

ConfigOf(f) == parsed[f.file].inline_config

\* A lint mechanism of the finding's own rule covers it.
LintSuppressed(f) ==
    \/ is_ignored(ConfigOf(f), f.loc)
    \/ is_rule_ignored(ConfigOf(f), f.loc, f.kind)

FormatDisabled(f) == is_disabled(ConfigOf(f), f.loc)

\* The line a finding is rendered as.
LineOfFinding(f) ==
    [kind |-> f.kind, file |-> f.file,
     line |-> offset_to_line(parsed[f.file].src, f.loc.start), text |-> f.text]

Count(seq, x) == Cardinality({i \in 1..Len(seq) : seq[i] = x})

SameLines(a, b) ==
    /\ Len(a) = Len(b)
    /\ \A i \in 1..Len(a) : Count(a, a[i]) = Count(b, a[i])

Unsuppressed == SelectSeq(findings, LAMBDA f : ~LintSuppressed(f))

\* C7: is_valid() is true if and only if every accumulated Finding is
\* suppressed by a lint mechanism applicable to its own rule (a lint-ignore
\* or rule-ignore range of its file), and the rendered lines are exactly the
\* Findings that are not suppressed.
C7_ValidIffAllSuppressed ==
    Reporting =>
       /\ is_valid(invalid_items) <=>
             (\A i \in 1..Len(findings) : LintSuppressed(findings[i]))
       /\ SameLines(Display(invalid_items),
                    [i \in 1..Len(Unsuppressed) |-> LineOfFinding(Unsuppressed[i])])

\* C8: a lint Finding inside a format-disable range and outside every
\* lint-ignore and rule-ignore range is still rendered and still makes
\* is_valid() false.
C8_FormatDisableDoesNotSuppressLint ==
    Reporting =>
       \A i \in 1..Len(findings) :
          (FormatDisabled(findings[i]) /\ ~LintSuppressed(findings[i])) =>
             /\ ~is_valid(invalid_items)
             /\ Count(Display(invalid_items), LineOfFinding(findings[i])) > 0

\* The order of the statement: by file path, then by position in the file.
ByFileThenPosition(a, b) ==
    \/ StrLess(a.file, b.file)
    \/ a.file = b.file /\ a.line <= b.line

\* The order of the rendered lines: by rule, then file path, then message
\* text, then line.
ByKindFileTextLine(a, b) ==
    \/ KindRank(a.kind) < KindRank(b.kind)
    \/ /\ a.kind = b.kind
       /\ \/ StrLess(a.file, b.file)
          \/ /\ a.file = b.file
             /\ \/ StrLess(a.text, b.text)
                \/ a.text = b.text /\ a.line <= b.line

Ordered(lines, Leq(_, _)) ==
    \A i, j \in 1..Len(lines) : i < j => Leq(lines[i], lines[j])

\* C9 as stated: the rendered lines are ordered by file path, then by
\* position within the file (then by rule).
C9_OrderOriginal == Reporting => Ordered(Display(invalid_items), ByFileThenPosition)

\* C9: the rendered lines appear in a total order that compares Findings by
\* rule, then by file path, then by message text, then by line, whatever the
\* order in which they were added.
C9_Order == Reporting => Ordered(Display(invalid_items), ByKindFileTextLine)

\* Two rendered lines of one rule and one file whose text order and line
\* order disagree.
C9_Witness ==
    /\ Reporting
    /\ \E i, j \in 1..Len(Display(invalid_items)) :
          LET a == Display(invalid_items)[i]
              b == Display(invalid_items)[j]
          IN  /\ i < j
              /\ a.kind = b.kind
              /\ a.file = b.file
              /\ StrLess(a.text, b.text)
              /\ a.line > b.line

Reorderings(n) == {p \in [1..n -> 1..n] : \A i, j \in 1..n : p[i] = p[j] => i = j}

\* C10: the rendered output and is_valid() do not depend on the order in
\* which the Findings were added: every reordering of the accumulated
\* Findings renders the same lines and has the same validity.
C10_OrderIndependent ==
    Reporting =>
       \A p \in Reorderings(Len(invalid_items)) :
          LET reordered == [i \in 1..Len(invalid_items) |-> invalid_items[p[i]]]
          IN  /\ Display(reordered) = Display(invalid_items)
              /\ is_valid(reordered) = is_valid(invalid_items)

\* Findings were added in an order that is not the rendered one.
C10_Witness ==
    /\ Reporting
    /\ Len(invalid_items) >= 2
    /\ Display(invalid_items) # DisplayUnsorted(invalid_items)

(***************************************************************************)
(* Determinism of the builder.                                             *)
(***************************************************************************)
Reordered(seq, p) == [i \in 1..Len(seq) |-> seq[p[i]]]

\* The tokens of a file stand at pairwise distinct start offsets.
DistinctStarts(tks) ==
    \A i, j \in 1..Len(tks) : tks[i].loc.start = tks[j].loc.start => i = j

\* C11: for tokens with pairwise distinct start offsets, the InlineConfig built
\* by InlineConfig::new is the same for every order in which the tokens are
\* handed to it, and building again from the same input yields the same range
\* lists in the three universes.
C11_OrderIndependentBuild ==
    (Done /\ DistinctStarts(toks)) =>
       \A p \in Reorderings(Len(toks)) :
          InlineConfigNew(Reordered(toks, p), src) = config

\* A finished build of a region whose tokens, processed in reverse order,
\* would give other ranges.
C11_Witness ==
    /\ Done
    /\ Len(toks) >= 2
    /\ \E u \in Universes : Ranges(locals, u) # <<>>
    /\ InlineConfigOf(CloseUnclosed(Fold(NewLocals, Reverse(toks), src), src)) # config

(***************************************************************************)
(* The directive grammar.                                                  *)
(***************************************************************************)
ScopeWords(sc) ==
    CASE sc = "NextItem" -> <<"next", "item">>
      [] sc = "Line"     -> <<"line">>
      [] sc = "NextLine" -> <<"next", "line">>
      [] sc = "Start"    -> <<"start">>
      [] sc = "End"      -> <<"end">>
      [] sc = "File"     -> <<"file">>

GenericScopes == {"NextItem", "Line", "NextLine", "Start", "End"}

\* The texts of the grammar with the kind each denotes.
GenericGrammar ==
    {<<Join(<<"disable">> \o ScopeWords(sc)), Generic("Disable" \o sc)>> : sc \in GenericScopes}
    \cup
    {<<Join(<<"ignore">> \o ScopeWords(sc)), Generic("Ignore" \o sc)>> : sc \in GenericScopes}

RuleGrammar ==
    {<<Join(<<"ignore", r>>), IgnoreRule(r, "NextItem")>> : r \in RuleNames}
    \cup
    {<<Join(<<"ignore", r>> \o ScopeWords(sc)), IgnoreRule(r, sc)>> :
        r \in RuleNames, sc \in RuleIgnoreScope}

Grammar == GenericGrammar \cup RuleGrammar

InGrammar(text) == \E g \in Grammar : g[1] = text

Expected(text) ==
    IF InGrammar(text) THEN Ok((CHOOSE g \in Grammar : g[1] = text)[2]) ELSE Err(text)

Malformed(c) == ~InGrammar(c.text)

\* C12: from_str classifies every text of the grammar as the kind it denotes
\* (the ten generic texts, ignore-<rule> as rule-scoped NextItem,
\* ignore-<rule>-<suffix> as the rule-scoped kind of that suffix) and rejects
\* every other text with an InvalidInlineConfigItem carrying the whole text.
C12_ParseClassifies ==
    [][(pc = "comments" /\ pos <= Len(comments)) =>
          LET c == comments[pos]
              e == Expected(c.text)
          IN  IF e.ok
              THEN /\ items' = Append(items, [loc |-> c.loc, item |-> e.item])
                   /\ invalid_inline_config_items' = invalid_inline_config_items
              ELSE /\ items' = items
                   /\ invalid_inline_config_items' =
                         Append(invalid_inline_config_items, [loc |-> c.loc, err |-> c.text])]_vars

\* A known rule with an unknown scope suffix was rejected with its whole text.
C12_Witness ==
    /\ pc = "checked"
    /\ items = <<>>
    /\ Len(invalid_inline_config_items) = 1
    /\ invalid_inline_config_items[1].err = Join(<<"ignore", "error", "bogus">>)

AllKinds ==
    {Generic(tg) : tg \in GenericTags} \cup
    {IgnoreRule(r, sc) : r \in RuleNames, sc \in RuleIgnoreScope}

\* The canonical text of a directive kind.
Canonical(item) ==
    IF item.tag = "IgnoreRule"
    THEN Join(<<"ignore", item.kind>> \o ScopeWords(item.scope))
    ELSE (CHOOSE g \in GenericGrammar : g[2] = item)[1]

\* The kinds the directives of the file denote.
KindsOfFile ==
    {Expected(comments[i].text).item : i \in {j \in 1..Len(comments) : ~Malformed(comments[j])}}

\* C13: writing a directive kind as its canonical text and parsing that text
\* yields the same kind, and no other kind has the same canonical text.
C13_RoundTrip ==
    pc \in {"comments", "parsed", "checked"} =>
       /\ \A i \in 1..Len(items) : items[i].item \in AllKinds
       /\ \A kind \in KindsOfFile :
             /\ from_str(Canonical(kind)) = Ok(kind)
             /\ \A other \in AllKinds : Canonical(other) = Canonical(kind) => other = kind

\* The kind of the text ignore-error-next-line was parsed.
C13_Witness ==
    /\ pc = "checked"
    /\ Len(items) = 1
    /\ items[1].item = IgnoreRule("error", "NextLine")
    /\ comments[1].text = Canonical(items[1].item)

(***************************************************************************)
(* Malformed directives.                                                   *)
(***************************************************************************)
\* The tokens of the well-formed directives of the file.
WellFormedTokens ==
    LET wf == SelectSeq(comments, LAMBDA c : ~Malformed(c))
    IN  [i \in 1..Len(wf) |-> [loc |-> wf[i].loc, item |-> Expected(wf[i].text).item]]

\* C14: a malformed directive does not end the pass over its file: the
\* InlineConfig of the file is the one built from the well-formed directives of
\* the file alone, and every malformed directive is in the report as a
\* Directive finding carrying its text.
C14_MalformedIsReported ==
    /\ pc \in {"parsed", "checked"} =>
          parsed[FileA].inline_config = InlineConfigNew(WellFormedTokens, src)
    /\ pc = "checked" =>
          \A i \in 1..Len(comments) :
             Malformed(comments[i]) =>
                \E j \in 1..Len(invalid_items) :
                   /\ invalid_items[j].kind = "directive"
                   /\ invalid_items[j].file = FileA
                   /\ invalid_items[j].text = comments[i].text
                   /\ invalid_items[j].line = offset_to_line(src, comments[i].loc.start)

\* A malformed directive stands before a well-formed one that still emits
\* its range.
C14_Witness ==
    /\ pc = "checked"
    /\ Len(comments) >= 2
    /\ Malformed(comments[1])
    /\ ~Malformed(comments[2])
    /\ parsed[FileA].inline_config.ignored_ranges # <<>>
    /\ Len(invalid_items) = 1

(***************************************************************************)
(* Totality of the builder.                                                *)
(***************************************************************************)
\* C15: InlineConfig::new never aborts: for every source and all tokens
\* located inside it (stray RegionEnd, unterminated regions, unbalanced or
\* stray braces after a NextItem directive, directives at the very end of the
\* file) the builder terminates and returns an InlineConfig.
C15_NeverAborts == <>Done

\* The builder returned for a file that ends with a NextItem directive.
C15_Witness ==
    /\ Done
    /\ Len(toks) >= 1
    /\ toks[Len(toks)].loc.end = Len(src)
    /\ toks[Len(toks)].item.tag \in {"DisableNextItem", "IgnoreNextItem"}

(***************************************************************************)
(* NextItem directives with no item.                                       *)
(***************************************************************************)
\* Only whitespace and comments, or nothing, from offset off to the end.
OnlyBlankAfter(off) ==
    \A i \in off..(Len(src) - 1) :
       is_whitespace(CharAt(src, i)) \/ CommentStateAt(src, i) = "Comment"

\* C16: a NextItem directive, in any universe, followed in the source only by
\* whitespace and comments, or by nothing, emits no range: the range lists
\* are those built without the directive.
C16_NextItemWithoutItem ==
    Done =>
       \A i \in 1..Len(toks) :
          (ScopeOf(toks[i].item) = "NextItem" /\ OnlyBlankAfter(toks[i].loc.end)) =>
             LET without == InlineConfigNew(Without(toks, i), src)
             IN  \A u \in Universes : Ranges(config, u) = Ranges(without, u)

\* A NextItem directive followed by whitespace and a comment up to the end of
\* the file has been processed.
C16_Witness ==
    /\ Done
    /\ Len(toks) = 1
    /\ ScopeOf(toks[1].item) = "NextItem"
    /\ OnlyBlankAfter(toks[1].loc.end)
    /\ \E i, j \in toks[1].loc.end..(Len(src) - 1) :
          is_whitespace(CharAt(src, i)) /\ CommentStateAt(src, j) = "Comment"

(***************************************************************************)
(* The queries.                                                            *)
(***************************************************************************)
\* Inclusion as stated: Loose by the start of the location, Strict by its
\* whole span.
Includes(range, loc) ==
    IF range.loose
    THEN range.start <= loc.start /\ loc.start < range.end
    ELSE range.start <= loc.start /\ loc.end <= range.end

\* C17: each query is true exactly when some range of its list includes the
\* location (Loose: range.start <= location.start < range.end; Strict:
\* range.start <= location.start and location.end <= range.end), and
\* is_rule_ignored is false for a rule that has no range list.
C17_QueriesAreInclusion ==
    Done =>
       \A loc \in Locs :
          /\ is_disabled(config, loc) <=>
                \E i \in 1..Len(config.disabled_ranges) :
                   Includes(config.disabled_ranges[i], loc)
          /\ is_ignored(config, loc) <=>
                \E i \in 1..Len(config.ignored_ranges) :
                   Includes(config.ignored_ranges[i], loc)
          /\ \A kind \in Rules :
                IF kind \in DOMAIN config.rule_ignored_ranges
                THEN is_rule_ignored(config, loc, kind) <=>
                        \E i \in 1..Len(config.rule_ignored_ranges[kind]) :
                           Includes(config.rule_ignored_ranges[kind][i], loc)
                ELSE ~is_rule_ignored(config, loc, kind)

\* A Strict lint range and a location that starts inside it and ends past
\* it, in a file with a rule that has no range list.
C17_Witness ==
    /\ Done
    /\ \E kind \in Rules : kind \notin DOMAIN config.rule_ignored_ranges
    /\ \E i \in 1..Len(config.ignored_ranges), loc \in Locs :
          LET r == config.ignored_ranges[i]
          IN  /\ ~r.loose
              /\ r.start <= loc.start
              /\ loc.start < r.end
              /\ loc.end > r.end
              /\ ~is_ignored(config, loc)

(***************************************************************************)
(* The modes of the NextLine ranges.                                       *)
(***************************************************************************)
\* The offset just past line k: past its terminating newline, or the end of
\* the source.
EndOfLine(k) ==
    LET after == {i \in 0..Len(src) : LineOf(i) > k}
    IN  IF after = {} THEN Len(src) ELSE Min(after)

\* The range list the same directive would emit in universe v.
RangesAs(v) ==
    Ranges(InlineConfigNew(<<[loc |-> toks[1].loc, item |-> Directive(v, "NextLine")]>>, src), v)

Offsets(ranges) == [i \in 1..Len(ranges) |-> <<ranges[i].start, ranges[i].end>>]

\* The generic forms emit Strict ranges, the rule-scoped form a Loose range,
\* over the same offsets.
NextLineModes(u) ==
    /\ \A i \in 1..Len(Ranges(config, u)) : Ranges(config, u)[i].loose <=> (u \in Rules)
    /\ \A v \in Universes : Offsets(RangesAs(v)) = Offsets(Ranges(config, u))

\* A location that starts on line k+1 and ends past the end of that line is
\* suppressed by the rule-scoped form and not by the generic forms.
NextLineOverhang(u, k) ==
    \A loc \in Locs :
       (LineOf(loc.start) = k + 1 /\ loc.end > EndOfLine(k + 1)) =>
          (Query(config, u, loc) <=> (u \in Rules))

\* With the directive directly above a declaration, a finding at the
\* declaration is suppressed and the same finding one line later is not.
NextLineDeclaration(u, k) ==
    \A loc \in Locs :
       (NonEmpty(loc) /\ CharAt(src, loc.start) = CODE /\ EndOfLine(k) = toks[1].loc.end + 1
          /\ toks[1].loc.end + 1 < Len(src) /\ CharAt(src, toks[1].loc.end + 1) = CODE) =>
          /\ WithinLine(loc, k + 1) => Query(config, u, loc)
          /\ WithinLine(loc, k + 2) => ~Query(config, u, loc)

\* C18: for a NextLine directive the generic forms emit a Strict range and
\* the rule-scoped form a Loose range over the same offsets; a location that
\* starts on the next line and ends past that line's end is suppressed by
\* the rule-scoped form and not by the generic forms; a finding at the
\* declaration directly below the directive is suppressed, the same finding
\* one line later is not.
C18_NextLineModes ==
    OnlyDirective("NextLine") =>
       LET u == UniverseOf(toks[1].item)
           k == LineOf(toks[1].loc.start)
       IN  /\ NextLineModes(u)
           /\ NextLineOverhang(u, k)
           /\ NextLineDeclaration(u, k)

(***************************************************************************)
(* The range a RegionEnd emits.                                            *)
(***************************************************************************)
Depth(st, u) ==
    CASE u = "format" -> st.disabled_depth
      [] u = "lint"   -> st.ignored_depth
      [] OTHER        -> IF u \in DOMAIN st.rule_ignored_depths
                         THEN st.rule_ignored_depths[u] ELSE 0

\* The locals before the token at position j is processed.
LocalsBefore(j) == Fold(NewLocals, SubSeq(toks, 1, j - 1), src)

\* The RegionStart of universe u that opened the region open at position p:
\* the last RegionStart before p met at depth 0.
Opener(u, p) ==
    Max({j \in 1..(p - 1) :
            /\ UniverseOf(toks[j].item) = u
            /\ ScopeOf(toks[j].item) = "Start"
            /\ Depth(LocalsBefore(j), u) = 0})

\* The RegionEnd at the current position closes a region.
Closing(u) ==
    /\ pc = "loop"
    /\ pos <= Len(toks)
    /\ UniverseOf(toks[pos].item) = u
    /\ ScopeOf(toks[pos].item) = "End"
    /\ Depth(locals, u) <= 1
    /\ PendingStart(locals, u) # None

\* C19: when a RegionEnd closes a region (the depth returns to 0 with a
\* pending start) one Strict range is emitted; it starts at the end offset of
\* the RegionStart that opened the region and ends at the start offset of the
\* RegionEnd in the format and lint universes, at its end offset in a
\* rule-scoped universe; the pending start is cleared.
C19_RegionEndRange ==
    [][\A u \in Universes :
          Closing(u) =>
             /\ Ranges(locals', u) =
                   Append(Ranges(locals, u),
                          [start |-> toks[Opener(u, pos)].loc.end,
                           end   |-> IF u \in Rules THEN toks[pos].loc.end
                                                    ELSE toks[pos].loc.start,
                           loose |-> FALSE])
             /\ PendingStart(locals', u) = None
             /\ Depth(locals', u) = 0]_vars

\* A rule-scoped RegionEnd has just closed a nested region.
C19_Witness ==
    /\ pc = "loop"
    /\ pos > 2
    /\ pos - 1 <= Len(toks)
    /\ \E u \in Rules :
          /\ UniverseOf(toks[pos - 1].item) = u
          /\ ScopeOf(toks[pos - 1].item) = "End"
          /\ Ranges(locals, u) # <<>>
          /\ Ranges(locals, u)[Len(Ranges(locals, u))].end = toks[pos - 1].loc.end
          /\ Ranges(locals, u)[Len(Ranges(locals, u))].start = toks[Opener(u, pos - 1)].loc.end
          /\ Opener(u, pos - 1) < pos - 2
          /\ PendingStart(locals, u) = None

(***************************************************************************)
(* The generic directives in the format and lint universes.                *)
(***************************************************************************)
\* The generic directive of the same scope in the other generic universe.
Counterpart(item) ==
    IF item.tag = "IgnoreRule" THEN item
    ELSE Directive(IF UniverseOf(item) = "format" THEN "lint" ELSE "format", ScopeOf(item))

\* The file with every disable-<scope> and ignore-<scope> exchanged.
Exchanged == [i \in 1..Len(toks) |-> [loc |-> toks[i].loc, item |-> Counterpart(toks[i].item)]]

IsGeneric(item) == item.tag \in GenericTags

HasGenericNextItem ==
    \E i \in 1..Len(toks) : IsGeneric(toks[i].item) /\ ScopeOf(toks[i].item) = "NextItem"

\* The ranges of the two generic universes are those of the exchanged file.
UniformGeneric ==
    LET other == InlineConfigNew(Exchanged, src)
    IN  /\ config.disabled_ranges = other.ignored_ranges
        /\ config.ignored_ranges = other.disabled_ranges

NewlinesFrom(off) == {i \in off..(Len(src) - 1) : CharAt(src, i) = NL}

\* C21: the Strict range of a Line directive ends at the offset of the first
\* newline at or after the directive's end; on a last line with no newline
\* after the directive it ends at the source length, so that a location on
\* that line after the directive text is suppressed.  Stated for a file whose
\* only directive is the Line directive.
C21_LineEndsAtEndOfLine ==
    OnlyDirective("Line") =>
        LET u     == UniverseOf(toks[1].item)
            loc   == toks[1].loc
            range == Ranges(locals, u)[1]
        IN  /\ ~range.loose
            /\ range.end = IF NewlinesFrom(loc.end) = {} THEN Len(src)
                           ELSE Min(NewlinesFrom(loc.end))
            /\ NewlinesFrom(loc.end) = {} =>
                  \A l \in Locs :
                      (NonEmpty(l) /\ l.start >= loc.end) => Query(config, u, l)

(***************************************************************************)
(* The invariant of a Suppression Range.                                   *)
(***************************************************************************)
\* The directive tokens lie inside the source and do not overlap.
TokensWellPlaced(tks) ==
    /\ \A i \in 1..Len(tks) :
          /\ 0 <= tks[i].loc.start
          /\ tks[i].loc.start <= tks[i].loc.end
          /\ tks[i].loc.end <= Len(src)
    /\ \A i, j \in 1..Len(tks) :
          i # j => (tks[i].loc.end <= tks[j].loc.start \/ tks[j].loc.end <= tks[i].loc.start)

\* C22: every range of every collection (format, generic lint, each rule)
\* satisfies start <= end, while the builder runs and in the built set, for
\* every source and every set of directive tokens that lie inside the source
\* and do not overlap.
C22_RangesWellFormed ==
    TokensWellPlaced(items \o toks) =>
        \A u \in Universes :
            \A i \in 1..Len(Ranges(locals, u)) :
                Ranges(locals, u)[i].start <= Ranges(locals, u)[i].end

\* A built set that holds an empty range (a RegionEnd right after its
\* RegionStart) and a range that is not empty.
C22_Witness ==
    /\ Done
    /\ \E i, j \in 1..Len(Ranges(locals, "lint")) :
          /\ Ranges(locals, "lint")[i].start = Ranges(locals, "lint")[i].end
          /\ Ranges(locals, "lint")[j].start < Ranges(locals, "lint")[j].end
    /\ \E i \in 1..Len(toks) : toks[i].item = Generic("IgnoreEnd")

(***************************************************************************)
(* A RegionEnd with no open region.                                        *)
(***************************************************************************)
\* The positions of the RegionEnd tokens of universe u met at depth 0.
StrayEnds(u) ==
    {i \in 1..Len(toks) :
        /\ UniverseOf(toks[i].item) = u
        /\ ScopeOf(toks[i].item) = "End"
        /\ Depth(LocalsBefore(i), u) = 0}

\* C23: a RegionEnd met at depth 0 emits no range and leaves the depth at 0
\* and no pending start; the ranges of its universe in the built set are
\* those of the same file without that RegionEnd, so a later RegionStart /
\* RegionEnd pair yields exactly the range it yields without it.
C23_StrayRegionEnd ==
    Done =>
        \A u \in Universes :
            \A i \in StrayEnds(u) :
                /\ Ranges(LocalsBefore(i + 1), u) = Ranges(LocalsBefore(i), u)
                /\ Depth(LocalsBefore(i + 1), u) = 0
                /\ PendingStart(LocalsBefore(i + 1), u) = None
                /\ Ranges(InlineConfigNew(Without(toks, i), src), u) = Ranges(config, u)

\* A rule-scoped RegionEnd with no open region, followed by a RegionStart /
\* RegionEnd pair of the same rule that emitted its range.
C23_Witness ==
    /\ Done
    /\ UScopes("variable") = <<"End", "Start", "End">>
    /\ 1 \in StrayEnds("variable")
    /\ Len(Ranges(locals, "variable")) = 1
    /\ Ranges(locals, "variable")[1].start = UToks("variable")[2].loc.end
    /\ Ranges(locals, "variable")[1].end = UToks("variable")[3].loc.end

(***************************************************************************)
(* The brace count of a lint NextItem directive.                           *)
(***************************************************************************)
\* The file holds one lint NextItem directive, followed by code.
LintNextItemOnly ==
    /\ OnlyDirective("NextItem")
    /\ UniverseOf(toks[1].item) # "format"
    /\ HasCode(toks[1].loc.end)

\* The end of the range when counting starts with the first opening brace at
\* or after s: right after the first closing brace that balances it, the end
\* of the file when there is no opening brace or no such closing brace.
CountedEnd(s) ==
    IF Opens(s, Len(src) - 1) = 0 THEN Len(src)
    ELSE IF Closers(FirstOpen(s)) = {} THEN Len(src)
    ELSE Min(Closers(FirstOpen(s))) + 1

\* C26: for a lint NextItem directive the brace count starts with the first
\* opening brace at or after the first code character s, and the range ends
\* right after the closing brace that brings the count back to zero; a
\* closing brace between s and the first opening brace does not change the
\* end.  With no opening brace, or a count that never returns to zero, the
\* range ends at the end of the file.
C26_CountStartsAtFirstOpen ==
    LintNextItemOnly =>
        LET u == UniverseOf(toks[1].item)
            s == FirstCode(toks[1].loc.end)
        IN  Ranges(locals, u) = <<[start |-> s, end |-> CountedEnd(s), loose |-> TRUE]>>

(***************************************************************************)
(* A lint NextItem directive above a declaration without a body.           *)
(***************************************************************************)
\* The next item is a declaration without braces that ends with the ';' at
\* offset t, and code follows it.
BracelessItem(t) ==
    /\ LintNextItemOnly
    /\ t > FirstCode(toks[1].loc.end)
    /\ t < Len(src)
    /\ CharAt(src, t) = SEMI
    /\ \A i \in FirstCode(toks[1].loc.end)..(t - 1) : CharAt(src, i) = CODE
    /\ HasCode(t + 1)

\* C27: a lint NextItem directive ignores the next code item only: when that
\* item is a declaration without braces terminated by ';' and further
\* declarations follow, no location that starts after the ';' is suppressed
\* by the directive.
C27_NextItemOnly ==
    \A t \in 0..Len(src) :
        BracelessItem(t) =>
            \A loc \in Locs :
                (NonEmpty(loc) /\ loc.start > t)
                    => ~Query(config, UniverseOf(toks[1].item), loc)

(***************************************************************************)
(* The pending start and the nesting depth.                                *)
(***************************************************************************)
\* C28: in every universe, after each directive token is processed, a pending
\* region start is recorded if and only if the nesting depth is greater than
\* 0, and the recorded start is the end offset of the RegionStart that raised
\* the depth from 0 to 1.
C28_PendingIffOpen ==
    pc = "loop" =>
        \A u \in Universes :
            /\ (PendingStart(locals, u) # None) <=> (Depth(locals, u) > 0)
            /\ PendingStart(locals, u) # None =>
                  Unwrap(PendingStart(locals, u)) = toks[Opener(u, pos)].loc.end

\* A nested RegionStart has just been processed: the depth is 2 and the
\* pending start is still that of the outer RegionStart.
C28_Witness ==
    /\ pc = "loop"
    /\ pos > 2
    /\ \E u \in Universes :
          /\ Depth(locals, u) = 2
          /\ UniverseOf(toks[pos - 1].item) = u
          /\ ScopeOf(toks[pos - 1].item) = "Start"
          /\ PendingStart(locals, u) # None
          /\ Unwrap(PendingStart(locals, u)) < toks[pos - 1].loc.start

(***************************************************************************)
(* The universes are independent.                                          *)
(***************************************************************************)
\* The state of universe u: its depth, its pending start, its ranges.
UniverseState(st, u) ==
    [depth |-> Depth(st, u), start |-> PendingStart(st, u), ranges |-> Ranges(st, u)]

\* C29: processing a directive of one universe leaves the depth, the pending
\* start and the ranges of every other universe unchanged (so that a
\* RegionEnd never closes a region of another universe), and the ranges of a
\* universe in the built set are those built from its own directives alone.
C29_UniversesIndependent ==
    [][/\ (pc = "loop" /\ pos <= Len(toks)) =>
             \A u \in Universes \ {UniverseOf(toks[pos].item)} :
                 UniverseState(locals', u) = UniverseState(locals, u)
       /\ (pc = "loop" /\ pc' = "done") =>
             \A u \in Universes :
                 Ranges(InlineConfigOf(locals'), u) =
                     Ranges(InlineConfigNew(UToks(u), src), u)]_vars

\* A region of rule "error" is open when a generic RegionEnd and a RegionEnd
\* of rule "variable" are met: it stays open and is closed at the end of the
\* file.
C29_Witness ==
    /\ Done
    /\ UScopes("error") = <<"Start">>
    /\ \E i, j \in 2..Len(toks) :
          /\ toks[1].item = IgnoreRule("error", "Start")
          /\ toks[i].item = Generic("IgnoreEnd")
          /\ toks[j].item = IgnoreRule("variable", "End")
    /\ Ranges(config, "error") =
          <<[start |-> toks[1].loc.end, end |-> Len(src), loose |-> FALSE]>>

(***************************************************************************)
(* A region closes only when its RegionEnds match its RegionStarts.        *)
(***************************************************************************)
\* C30: after the sequence Start, Start, End in one universe no range has
\* been emitted by the loop; the region is closed at the end of the file by
\* the rule of the unterminated region, and every location that starts after
\* the single RegionEnd is suppressed.
C30_RegionStaysOpen ==
    Done =>
        \A u \in Universes :
            UScopes(u) = <<"Start", "Start", "End">> =>
                /\ Ranges(LocalsBefore(Len(toks) + 1), u) = <<>>
                /\ Ranges(config, u) =
                      <<[start |-> UToks(u)[1].loc.end, end |-> Len(src), loose |-> FALSE]>>
                /\ \A loc \in Locs :
                      loc.start >= UToks(u)[3].loc.end => Query(config, u, loc)

\* Start, Start, End of the generic lint universe, then code: the code after
\* the RegionEnd is ignored.
C30_Witness ==
    /\ Done
    /\ UScopes("lint") = <<"Start", "Start", "End">>
    /\ Ranges(LocalsBefore(Len(toks) + 1), "lint") = <<>>
    /\ \E i \in 1..Len(src) :
          /\ i - 1 >= UToks("lint")[3].loc.end
          /\ src[i] = CODE
          /\ is_ignored(config, Loc(i - 1, i))

(***************************************************************************)
(* The fallback of parse_solidity keeps the offsets.                       *)
(***************************************************************************)
\* The offsets covered by a whole-word occurrence of the keyword in the
\* source: the nine characters of "transient" with no word character right
\* before or right after them.
WholeWordAt(off) ==
    /\ off + 9 <= Len(src)
    /\ SubSeq(src, off + 1, off + 9) = TRANSIENT_KEYWORD
    /\ off = 0 \/ ~is_word_char(CharAt(src, off - 1))
    /\ off + 9 = Len(src) \/ ~is_word_char(CharAt(src, off + 9))

InWholeWord(i) == \E off \in 0..i : WholeWordAt(off) /\ i < off + 9

LocsOf(cs) == [i \in 1..Len(cs) |-> cs[i].loc]

\* C24: the sanitized text has the length of the source and equals it at
\* every offset outside the whole-word occurrences of "transient"; the
\* comments of the fallback parse have the locations of the comments of the
\* source.
C24_OffsetsStable ==
    [][/\ (pc = "parse" /\ pc' \in {"reparse", "err"}) =>
             /\ Len(sanitized') = Len(src)
             /\ \A i \in 0..(Len(src) - 1) :
                   ~InWholeWord(i) => CharAt(sanitized', i) = CharAt(src, i)
       /\ (pc = "reparse" /\ pc' = "ok") =>
             LocsOf(comments') = LocsOf(CommentsIn(src))]_vars

\* The fallback parse returned a comment that follows a replaced keyword.
C24_Witness ==
    /\ pc = "ok"
    /\ sanitized # <<>>
    /\ sanitized # src
    /\ \E i \in 1..Len(comments) :
          \E off \in 0..Len(src) :
             /\ WholeWordAt(off)
             /\ comments[i].loc.start >= off + 9
             /\ CharAt(src, comments[i].loc.start) = COMMENT

(***************************************************************************)
(* The precedence of the path settings.                                    *)
(***************************************************************************)
\* The key of a section holds a path: it is present with a string value.
HasPath(table, key) ==
    key \in DOMAIN table /\ table[key] # None /\ Unwrap(table[key]).type = "string"

PathOf(table, key) == Unwrap(table[key]).val

\* The [check] table of the document, the empty table if there is none.
CheckTable ==
    IF Unwrap(toml).check # None /\ Unwrap(Unwrap(toml).check).type = "table"
    THEN Unwrap(Unwrap(toml).check).val ELSE <<>>

\* The setting that decides the path of a name, by precedence.
Setting(name) ==
    IF HasPath(CheckTable, name \o "_path") THEN PathOf(CheckTable, name \o "_path")
    ELSE IF HasPath(Unwrap(toml).profile_default, name)
         THEN PathOf(Unwrap(toml).profile_default, name)
    ELSE IF HasPath(Unwrap(toml).root, name) THEN PathOf(Unwrap(toml).root, name)
    ELSE DefaultName(name)

\* C25: each of the three paths is resolved on its own, from the [check] key
\* <name>_path if it holds a path, otherwise from <name> of [profile.default],
\* otherwise from the root-level <name>, otherwise from the Foundry default
\* name; the path returned is the setting with the "./" prefix of
\* normalize_path.  A [check] section that sets only some keys falls back to
\* the profile for the others.
C25_PathPrecedence ==
    (pc = "loaded" /\ toml # None) =>
        \A name \in PathNames : check_paths[name] = normalize_path(Setting(name))

\* [check] sets src_path only, the profile sets script, the root level sets
\* script and test: the three paths come from three different sections.
C25_Witness ==
    /\ pc = "loaded"
    /\ toml # None
    /\ HasPath(CheckTable, "src_path")
    /\ ~HasPath(CheckTable, "script_path")
    /\ ~HasPath(CheckTable, "test_path")
    /\ HasPath(Unwrap(toml).profile_default, "src")
    /\ HasPath(Unwrap(toml).profile_default, "script")
    /\ ~HasPath(Unwrap(toml).profile_default, "test")
    /\ HasPath(Unwrap(toml).root, "script")
    /\ HasPath(Unwrap(toml).root, "test")
    /\ check_paths = [src    |-> <<".", "/", "C", "1">>,
                      script |-> <<".", "/", "P", "2">>,
                      test   |-> <<".", "/", ".">>]

====
